---- MODULE Spec2Model ----
(***************************************************************************)
(* A model of cimdea's metadata store (MetadataEntities and its two        *)
(* adjacency structures), of the Context that loads it from layouts, and   *)
(* of the category bins of the JSON request schema.                        *)
(*                                                                         *)
(* Rust vectors are indexed from 0 and TLA+ sequences from 1: the element  *)
(* with id i of a Vec is element i + 1 of the sequence that models it.     *)
(* An Option is a sequence of length at most one: None is <<>> and         *)
(* Some(x) is <<x>>.  A panic! is the flag panicked: the call does not     *)
(* return, the process is over, and the store keeps whatever the call had  *)
(* written before it panicked.                                             *)
(***************************************************************************)
EXTENDS Integers, Sequences, FiniteSets, TLC

VARIABLES
    store,       \* a MetadataEntities value driven through its own methods
    panicked,    \* TRUE once a call has panicked
    last,        \* the last call: its name, its arguments, its locals, its result
    layouts,     \* the layout files under data_root: dataset name -> variable names
    metadata,    \* Context.settings.metadata: Option<MetadataEntities>
    raw,         \* the (low?, high?, label) a CategoryBin is built from
    bin,         \* the Result of CategoryBin::new / try_from, <<>> before the call
    within_out,  \* the last (test_value, result) of CategoryBin::within, <<>> before
    ctor_in,     \* what a Context is built from: name, the two optional roots, the disk
    ctx,         \* Option<Context>: None until from_ipums_collection_name has returned
    out,         \* the value the last call on the Context or the request returned
    tab          \* one call of tabulate: where it is, its locals, the connection, its result

vars == <<store, panicked, last, layouts, metadata, raw, bin, within_out,
          ctor_in, ctx, out, tab>>

(***************************************************************************)
(* Bounds of the model.                                                    *)
(***************************************************************************)
MaxIndexLen == 2      \* variables_index and datasets_index hold at most this many
MaxLoadLen == 3       \* load_metadata_for_datasets takes at most this many names
MaxLayoutVars == 2    \* a layout file lists at most this many variables
MaxBinValue == 2      \* bin bounds and test values range over -MaxBinValue..MaxBinValue

DatasetNames == {"us2015a", "us2015b"}
VariableNames == {"AGE", "GQ"}
\* The id field a caller's IpumsDataset / IpumsVariable value carries in.
CarriedIds == {0, 7}
Labels == {"low", "high"}
BinValues == (0 - MaxBinValue)..MaxBinValue

None == <<>>
Some(x) == <<x>>

\* HashMap::insert(k, v): a new key is added, an existing key is overwritten.
MapInsert(m, k, v) == [x \in (DOMAIN m) \cup {k} |-> IF x = k THEN v ELSE m[x]]

NoCall ==
    [op |-> "new", dataset |-> "-", variable |-> "-",
     dataset_id |-> -1, variable_id |-> -1, ret |-> -1, names |-> <<>>]

\* No Context is being built.
NoCtorIn ==
    [name |-> <<>>, other_product_root |-> <<>>, other_data_root |-> <<>>,
     product_root_exists |-> FALSE]

\* tabulate has not been called.
NoTab == [pc |-> "idle"]

(***************************************************************************)
(* MetadataEntities                                                        *)
(***************************************************************************)
MetadataEntitiesNew ==
    [datasets_by_name |-> <<>>,
     variables_by_name |-> <<>>,
     available_variables |-> <<>>,
     available_datasets |-> <<>>,
     variables_index |-> <<>>,
     datasets_index |-> <<>>]

next_dataset_id(md) == Len(md.datasets_index)

next_variable_id(md) == Len(md.variables_index)

\* Always appends: the name is not looked up first.
create_variable(md, var) ==
    LET id == next_variable_id(md)
        new_var == [var EXCEPT !.id = id]
    IN  [md |-> [md EXCEPT
                    !.variables_by_name = MapInsert(@, new_var.name, id),
                    !.variables_index = Append(@, new_var)],
         id |-> id]

\* A mutant of create_dataset: the id the caller's value carries is stored.
create_dataset_keeps_carried_id(md, ds) ==
    [md |-> [md EXCEPT
                !.datasets_by_name = MapInsert(@, ds.name, next_dataset_id(md)),
                !.datasets_index = Append(@, ds)],
     id |-> next_dataset_id(md)]

create_dataset(md, ds) ==
    LET id == next_dataset_id(md)
        new_ds == [ds EXCEPT !.id = id]
    IN  [md |-> [md EXCEPT
                    !.datasets_by_name = MapInsert(@, new_ds.name, id),
                    !.datasets_index = Append(@, new_ds)],
         id |-> id]

\* Vec::get(i).is_none()
IsNone(vec, i) == i >= Len(vec)

\* One empty set is pushed when the index is absent, whatever the index is;
\* the indexing that follows panics when the index is still out of bounds.
VariablesForDataset_add_or_update(vec, dataset_id, variable_id) ==
    LET pushed == IF IsNone(vec, dataset_id) THEN Append(vec, {}) ELSE vec
    IN  IF dataset_id >= Len(pushed)
        THEN [vec |-> pushed, panicked |-> TRUE]
        ELSE [vec |-> [pushed EXCEPT ![dataset_id + 1] = @ \cup {variable_id}],
              panicked |-> FALSE]

DatasetsForVariable_add_or_update(vec, dataset_id, variable_id) ==
    LET pushed == IF IsNone(vec, variable_id) THEN Append(vec, {}) ELSE vec
    IN  IF variable_id >= Len(pushed)
        THEN [vec |-> pushed, panicked |-> TRUE]
        ELSE [vec |-> [pushed EXCEPT ![variable_id + 1] = @ \cup {dataset_id}],
              panicked |-> FALSE]

\* for_dataset / for_variable: Option<&HashSet<_>>
for_dataset(md, dataset_id) ==
    IF IsNone(md.available_variables, dataset_id) THEN None
    ELSE Some(md.available_variables[dataset_id + 1])

for_variable(md, var_id) ==
    IF IsNone(md.available_datasets, var_id) THEN None
    ELSE Some(md.available_datasets[var_id + 1])

\* A mutant of connect: only the dataset side is updated.
connect_one_side(md, dataset_id, variable_id) ==
    LET a == VariablesForDataset_add_or_update(md.available_variables,
                                               dataset_id, variable_id)
    IN  [md |-> [md EXCEPT !.available_variables = a.vec], panicked |-> a.panicked]

connect(md, dataset_id, variable_id) ==
    LET a == VariablesForDataset_add_or_update(md.available_variables,
                                               dataset_id, variable_id)
        md1 == [md EXCEPT !.available_variables = a.vec]
    IN  IF a.panicked THEN [md |-> md1, panicked |-> TRUE]
        ELSE LET b == DatasetsForVariable_add_or_update(md1.available_datasets,
                                                        dataset_id, variable_id)
             IN  [md |-> [md1 EXCEPT !.available_datasets = b.vec],
                  panicked |-> b.panicked]

\* Panics, before it touches anything, when either name is unknown.
connect_names(md, dataset_name, variable_name) ==
    IF variable_name \notin DOMAIN md.variables_by_name
       \/ dataset_name \notin DOMAIN md.datasets_by_name
    THEN [md |-> md, panicked |-> TRUE]
    ELSE connect(md, md.datasets_by_name[dataset_name],
                 md.variables_by_name[variable_name])

\* A mutant of add_dataset_variable: the names are not looked up, both
\* entities are created on every call.
add_dataset_variable_always_creates(md, dataset, variable) ==
    LET d == create_dataset(md, dataset)
        v == create_variable(d.md, variable)
        c == connect(v.md, d.id, v.id)
    IN  [md |-> c.md, panicked |-> c.panicked,
         dataset_id |-> d.id, variable_id |-> v.id]

\* A mutant of add_dataset_variable: the two ids are handed to connect in
\* the other order.
add_dataset_variable_swapped_ids(md, dataset, variable) ==
    LET d == IF dataset.name \in DOMAIN md.datasets_by_name
             THEN [md |-> md, id |-> md.datasets_by_name[dataset.name]]
             ELSE create_dataset(md, dataset)
        v == IF variable.name \in DOMAIN d.md.variables_by_name
             THEN [md |-> d.md, id |-> d.md.variables_by_name[variable.name]]
             ELSE create_variable(d.md, variable)
        c == connect(v.md, v.id, d.id)
    IN  [md |-> c.md, panicked |-> c.panicked,
         dataset_id |-> d.id, variable_id |-> v.id]

add_dataset_variable(md, dataset, variable) ==
    LET d == IF dataset.name \in DOMAIN md.datasets_by_name
             THEN [md |-> md, id |-> md.datasets_by_name[dataset.name]]
             ELSE create_dataset(md, dataset)
        v == IF variable.name \in DOMAIN d.md.variables_by_name
             THEN [md |-> d.md, id |-> d.md.variables_by_name[variable.name]]
             ELSE create_variable(d.md, variable)
        c == connect(v.md, d.id, v.id)
    IN  [md |-> c.md, panicked |-> c.panicked,
         dataset_id |-> d.id, variable_id |-> v.id]

(***************************************************************************)
(* The public operations of MetadataEntities as actions on store.          *)
(***************************************************************************)
OtherUnchanged == UNCHANGED <<layouts, metadata, raw, bin, within_out, ctor_in, ctx, out, tab>>

CreateVariable ==
    /\ ~panicked
    /\ Len(store.variables_index) < MaxIndexLen
    /\ \E name \in VariableNames, carried \in CarriedIds :
          LET r == create_variable(store, [name |-> name, id |-> carried])
          IN  /\ store' = r.md
              /\ last' = [NoCall EXCEPT !.op = "create_variable",
                                        !.variable = name, !.ret = r.id]
    /\ UNCHANGED panicked
    /\ OtherUnchanged

CreateDataset ==
    /\ ~panicked
    /\ Len(store.datasets_index) < MaxIndexLen
    /\ \E name \in DatasetNames, carried \in CarriedIds :
          LET r == create_dataset(store, [name |-> name, id |-> carried])
          IN  /\ store' = r.md
              /\ last' = [NoCall EXCEPT !.op = "create_dataset",
                                        !.dataset = name, !.ret = r.id]
    /\ UNCHANGED panicked
    /\ OtherUnchanged

AddDatasetVariable ==
    /\ ~panicked
    /\ \E dn \in DatasetNames, vn \in VariableNames, carried \in CarriedIds :
          LET r == add_dataset_variable(store, [name |-> dn, id |-> carried],
                                        [name |-> vn, id |-> carried])
          IN  /\ Len(r.md.datasets_index) <= MaxIndexLen
              /\ Len(r.md.variables_index) <= MaxIndexLen
              /\ store' = r.md
              /\ panicked' = r.panicked
              /\ last' = [NoCall EXCEPT !.op = "add_dataset_variable",
                                        !.dataset = dn, !.variable = vn,
                                        !.dataset_id = r.dataset_id,
                                        !.variable_id = r.variable_id]
    /\ OtherUnchanged

Init ==
    /\ store = MetadataEntitiesNew
    /\ panicked = FALSE
    /\ last = NoCall
    /\ layouts = [d \in DatasetNames |-> <<>>]
    /\ metadata = None
    /\ raw = [code |-> 0, value_label |-> "low", low |-> None, high |-> None]
    /\ bin = <<>>
    /\ within_out = <<>>
    /\ ctor_in = NoCtorIn
    /\ ctx = None
    /\ out = None
    /\ tab = NoTab

Next ==
    \/ CreateVariable
    \/ CreateDataset
    \/ AddDatasetVariable

Spec == Init /\ [][Next]_vars

(***************************************************************************)
(* The private operations connect and connect_names as actions, for the    *)
(* claims about what they do with ids and names that do not exist.         *)
(***************************************************************************)
Ids == 0..MaxIndexLen

ConnectIds ==
    /\ ~panicked
    /\ \E d \in Ids, v \in Ids :
          LET r == connect(store, d, v)
          IN  /\ Len(r.md.available_variables) <= MaxIndexLen
              /\ Len(r.md.available_datasets) <= MaxIndexLen
              /\ store' = r.md
              /\ panicked' = r.panicked
              /\ last' = [NoCall EXCEPT !.op = "connect",
                                        !.dataset_id = d, !.variable_id = v]
    /\ OtherUnchanged

ConnectNames ==
    /\ ~panicked
    /\ \E dn \in DatasetNames, vn \in VariableNames :
          LET r == connect_names(store, dn, vn)
          IN  /\ store' = r.md
              /\ panicked' = r.panicked
              /\ last' = [NoCall EXCEPT !.op = "connect_names",
                                        !.dataset = dn, !.variable = vn]
    /\ OtherUnchanged

NextInternal ==
    \/ CreateVariable
    \/ CreateDataset
    \/ AddDatasetVariable
    \/ ConnectIds
    \/ ConnectNames

SpecInternal == Init /\ [][NextInternal]_vars

(***************************************************************************)
(* Claims about MetadataEntities                                           *)
(***************************************************************************)
\* v is in for_dataset(d) / d is in for_variable(v); an absent entry holds nothing.
InForDataset(md, d, v) == for_dataset(md, d) # None /\ v \in for_dataset(md, d)[1]
InForVariable(md, v, d) == for_variable(md, v) # None /\ d \in for_variable(md, v)[1]

DatasetIdPresent(md, d) == \E i \in 1..Len(md.datasets_index) : md.datasets_index[i].id = d
VariableIdPresent(md, v) == \E i \in 1..Len(md.variables_index) : md.variables_index[i].id = v

\* C1: in every store state a sequence of create_variable, create_dataset and
\* add_dataset_variable calls returns in, v is in for_dataset(d) if and only if
\* d is in for_variable(v), for every dataset id d and variable id v.
C1_AdjacencyAgree ==
    ~panicked =>
        \A d \in Ids, v \in Ids :
            InForDataset(store, d, v) <=> InForVariable(store, v, d)

\* A call of add_dataset_variable has returned and has connected the second
\* dataset to a variable, on both sides.
C1_Witness ==
    /\ ~panicked
    /\ last.op = "add_dataset_variable"
    /\ last.dataset_id = 1
    /\ InForDataset(store, 1, last.variable_id)
    /\ InForVariable(store, last.variable_id, 1)

\* C2: add_or_update with an id at or past the outer length extends the outer
\* sequence with empty sets up to that id and inserts, without failing, on the
\* dataset side and on the variable side.
C2_SparseGrowth ==
    [][last'.op = "add_dataset_variable" =>
        /\ last'.dataset_id >= Len(store.available_variables) =>
              /\ ~panicked'
              /\ Len(store'.available_variables) = last'.dataset_id + 1
              /\ \A i \in (Len(store.available_variables) + 1)..last'.dataset_id :
                    store'.available_variables[i] = {}
              /\ store'.available_variables[last'.dataset_id + 1] = {last'.variable_id}
        /\ last'.variable_id >= Len(store.available_datasets) =>
              /\ ~panicked'
              /\ Len(store'.available_datasets) = last'.variable_id + 1
              /\ \A i \in (Len(store.available_datasets) + 1)..last'.variable_id :
                    store'.available_datasets[i] = {}
              /\ store'.available_datasets[last'.variable_id + 1] = {last'.dataset_id}
    ]_vars

\* C3: create_variable with a name that is already registered returns the
\* existing id and leaves the store unchanged; create_dataset likewise.
C3_CreateExistingIsNoop ==
    [][/\ (last'.op = "create_variable"
           /\ last'.variable \in DOMAIN store.variables_by_name) =>
              /\ store' = store
              /\ last'.ret = store.variables_by_name[last'.variable]
       /\ (last'.op = "create_dataset"
           /\ last'.dataset \in DOMAIN store.datasets_by_name) =>
              /\ store' = store
              /\ last'.ret = store.datasets_by_name[last'.dataset]
    ]_vars

\* C4: add_dataset_variable is idempotent: from every reachable store, a call
\* that returns, made a second time with the same names, returns too and yields
\* the same store and the same ids as the first.
C4_AddTwiceSameAsOnce ==
    ~panicked =>
        \A dn \in DatasetNames, vn \in VariableNames, c1 \in CarriedIds, c2 \in CarriedIds :
            LET once == add_dataset_variable(store, [name |-> dn, id |-> c1],
                                             [name |-> vn, id |-> c1])
                twice == add_dataset_variable(once.md, [name |-> dn, id |-> c2],
                                              [name |-> vn, id |-> c2])
            IN  ~once.panicked =>
                    /\ ~twice.panicked
                    /\ twice.md = once.md
                    /\ twice.dataset_id = once.dataset_id
                    /\ twice.variable_id = once.variable_id

\* The store is the result of a call of add_dataset_variable that created the
\* second dataset and the second variable, and the same call again leaves it as it is.
C4_Witness ==
    /\ ~panicked
    /\ last.op = "add_dataset_variable"
    /\ last.dataset_id = 1
    /\ last.variable_id = 1
    /\ add_dataset_variable(store, [name |-> last.dataset, id |-> 0],
                            [name |-> last.variable, id |-> 0]).md = store

IdsDense(md) ==
    /\ \A i \in 1..Len(md.variables_index) : md.variables_index[i].id = i - 1
    /\ \A i \in 1..Len(md.datasets_index) : md.datasets_index[i].id = i - 1

\* The id a name resolves to does not change, and a name registered by this
\* step, the k-th distinct one, gets id k - 1.
IdsStable(by_name, by_name_next) ==
    \A n \in DOMAIN by_name_next :
        IF n \in DOMAIN by_name
        THEN by_name_next[n] = by_name[n]
        ELSE by_name_next[n] = Cardinality(DOMAIN by_name)

\* C5: ids are dense and zero-based (the entity at position i has id i, whatever
\* id the value passed in carried), the k-th distinct entity gets id k - 1, and
\* the id of an entity already inserted is changed by no later operation.
C5_IdsDenseAndStable ==
    /\ [](IdsDense(store))
    /\ [][/\ \A n \in DOMAIN store.variables_by_name :
                n \in DOMAIN store'.variables_by_name
          /\ \A n \in DOMAIN store.datasets_by_name :
                n \in DOMAIN store'.datasets_by_name
          /\ IdsStable(store.variables_by_name, store'.variables_by_name)
          /\ IdsStable(store.datasets_by_name, store'.datasets_by_name)]_vars

NameMapBijective(by_name, index, names) ==
    /\ Cardinality(DOMAIN by_name) = Len(index)
    /\ \A n \in names, i \in 0..(Len(index) - 1) :
          (n \in DOMAIN by_name /\ by_name[n] = i) <=> index[i + 1].name = n

\* C6: each name map has exactly one entry per element of its index, and
\* by_name[n] = i if and only if index[i].name = n.
C6_NameMapsBijective ==
    /\ NameMapBijective(store.variables_by_name, store.variables_index, VariableNames)
    /\ NameMapBijective(store.datasets_by_name, store.datasets_index, DatasetNames)

\* C7: connect inserts only when both ids are present in the indexes; a connect
\* with an id, or a connect_names with a name, that does not exist is fatal and
\* changes neither adjacency structure.
C7_ConnectNeedsBothIds ==
    [][/\ (last'.op = "connect"
           /\ ~(DatasetIdPresent(store, last'.dataset_id)
                /\ VariableIdPresent(store, last'.variable_id))) =>
              /\ panicked'
              /\ store'.available_variables = store.available_variables
              /\ store'.available_datasets = store.available_datasets
       /\ (last'.op = "connect_names"
           /\ ~(last'.dataset \in DOMAIN store.datasets_by_name
                /\ last'.variable \in DOMAIN store.variables_by_name)) =>
              /\ panicked'
              /\ store'.available_variables = store.available_variables
              /\ store'.available_datasets = store.available_datasets
    ]_vars

(***************************************************************************)
(* Context: the metadata of a collection, loaded from the layout files.    *)
(* A Context built by from_ipums_collection_name has a data_root and has   *)
(* enable_full_metadata = false, so load_metadata_for_datasets takes the   *)
(* layout branch.  layouts[ds] is what all_variables() yields for the      *)
(* layout file of dataset ds, in file order.                               *)
(***************************************************************************)
RECURSIVE SeqsUpTo(_, _)
SeqsUpTo(S, n) ==
    IF n = 0 THEN {<<>>}
    ELSE LET shorter == SeqsUpTo(S, n - 1)
         IN  shorter \cup {Append(q, x) : q \in {r \in shorter : Len(r) = n - 1}, x \in S}

\* IpumsVariable::from((var, index_v)): the variable of a layout line.  The
\* formatting hint is the (start column, width) pair of the line; the k-th
\* line of a layout starts at column k and is one column wide.
IpumsVariable_from(var, index_v) ==
    [name |-> var, id |-> index_v, formatting |-> Some(<<index_v + 1, 1>>)]

\* The inner loop of the load: one add_dataset_variable per variable of the
\* layout.  The values handed over are built from a layout line and the loop
\* index; the index is the id they carry in, which create_* overwrites.
RECURSIVE load_layout_variables(_, _, _, _)
load_layout_variables(md, ipums_dataset, all_variables, index_v) ==
    IF index_v >= Len(all_variables) THEN [md |-> md, panicked |-> FALSE]
    ELSE LET ipums_var == IpumsVariable_from(all_variables[index_v + 1], index_v)
             r == add_dataset_variable(md, ipums_dataset, ipums_var)
         IN  IF r.panicked THEN [md |-> r.md, panicked |-> TRUE]
             ELSE load_layout_variables(r.md, ipums_dataset, all_variables, index_v + 1)

\* The outer loop of the load, from dataset number index_ds on.
RECURSIVE load_datasets_from(_, _, _, _)
load_datasets_from(md, datasets, files, index_ds) ==
    IF index_ds >= Len(datasets) THEN [md |-> md, panicked |-> FALSE]
    ELSE LET ds == datasets[index_ds + 1]
             ipums_dataset == [name |-> ds, id |-> index_ds]
             r == load_layout_variables(md, ipums_dataset, files[ds], 0)
         IN  IF r.panicked THEN [md |-> r.md, panicked |-> TRUE]
             ELSE load_datasets_from(r.md, datasets, files, index_ds + 1)

\* Starts from MetadataEntities::new() on every call; self.metadata is
\* assigned once the loops are over.
load_metadata_for_selected_datasets_from_layouts(datasets, files) ==
    load_datasets_from(MetadataEntitiesNew, datasets, files, 0)

LoadMetadataForDatasets ==
    /\ ~panicked
    /\ \E datasets \in SeqsUpTo(DatasetNames, MaxLoadLen) :
          LET r == load_metadata_for_selected_datasets_from_layouts(datasets, layouts)
          IN  /\ metadata' = IF r.panicked THEN metadata ELSE Some(r.md)
              /\ panicked' = r.panicked
              /\ last' = [NoCall EXCEPT !.op = "load_metadata_for_datasets",
                                        !.names = datasets]
    /\ UNCHANGED <<store, layouts, raw, bin, within_out, ctor_in, ctx, out, tab>>

\* The state right after Context::from_ipums_collection_name: the settings are
\* default_settings_named's, whose metadata is None.
InitCtx ==
    /\ store = MetadataEntitiesNew
    /\ panicked = FALSE
    /\ last = [NoCall EXCEPT !.op = "from_ipums_collection_name"]
    /\ layouts \in [DatasetNames -> SeqsUpTo(VariableNames, MaxLayoutVars)]
    /\ metadata = None
    /\ raw = [code |-> 0, value_label |-> "low", low |-> None, high |-> None]
    /\ bin = <<>>
    /\ within_out = <<>>
    /\ ctor_in = NoCtorIn
    /\ ctx = None
    /\ out = None
    /\ tab = NoTab

NextCtx == LoadMetadataForDatasets

SpecCtx == InitCtx /\ [][NextCtx]_vars

(***************************************************************************)
(* Claims about the metadata of a Context                                  *)
(***************************************************************************)
\* The names of a list, each once, in the order of their first occurrence.
RECURSIVE Dedup(_)
Dedup(names) ==
    IF names = <<>> THEN <<>>
    ELSE LET front == Dedup(SubSeq(names, 1, Len(names) - 1))
             x == names[Len(names)]
         IN  IF \E i \in 1..Len(front) : front[i] = x THEN front ELSE Append(front, x)

HasDuplicate(names) == \E i, j \in 1..Len(names) : i < j /\ names[i] = names[j]

LoadedEachOnce(names) ==
    Some(load_metadata_for_selected_datasets_from_layouts(Dedup(names), layouts).md)

Ok(x) == [ok |-> TRUE, value |-> x]
Err(m) == [ok |-> FALSE, msg |-> m]

LessThan(value, label) == [tag |-> "LessThan", value |-> value, label |-> label]
Range(low, high, label) == [tag |-> "Range", low |-> low, high |-> high, label |-> label]
MoreThan(value, label) == [tag |-> "MoreThan", value |-> value, label |-> label]

\* A mutant of try_from: the guard of the first arm is high <= low.
CategoryBin_try_from_rejects_equal(value) ==
    LET label == value.value_label
        low == value.low
        high == value.high
    IN  IF low # None /\ high # None /\ high[1] <= low[1]
        THEN Err(<<"do not satisfy low <= high", low[1], high[1]>>)
        ELSE IF low # None /\ high # None THEN Ok(Range(low[1], high[1], label))
        ELSE IF low = None /\ high # None THEN Ok(LessThan(high[1], label))
        ELSE IF low # None /\ high = None THEN Ok(MoreThan(low[1], label))
        ELSE Err(<<"must have low, high, or both set to some value">>)

\* impl TryFrom<CategoryBinRaw> for CategoryBin: the match arms in order.
CategoryBin_try_from(value) ==
    LET label == value.value_label
        low == value.low
        high == value.high
    IN  IF low # None /\ high # None /\ high[1] < low[1]
        THEN Err(<<"do not satisfy low <= high", low[1], high[1]>>)
        ELSE IF low # None /\ high # None THEN Ok(Range(low[1], high[1], label))
        ELSE IF low = None /\ high # None THEN Ok(LessThan(high[1], label))
        ELSE IF low # None /\ high = None THEN Ok(MoreThan(low[1], label))
        ELSE Err(<<"must have low, high, or both set to some value">>)

CategoryBin_new(low, high, label) ==
    IF low # None /\ high # None /\ high[1] < low[1]
    THEN Err(<<"do not satisfy low <= high", low[1], high[1]>>)
    ELSE IF low # None /\ high # None THEN Ok(Range(low[1], high[1], label))
    ELSE IF low = None /\ high # None THEN Ok(LessThan(high[1], label))
    ELSE IF low # None /\ high = None THEN Ok(MoreThan(low[1], label))
    ELSE Err(<<"must have low, high, or both set to some value">>)

\* A mutant of within: LessThan matches its own value too.
within_less_or_equal(self, test_value) ==
    IF self.tag = "LessThan" THEN test_value <= self.value
    ELSE IF self.tag = "Range" THEN test_value >= self.low /\ test_value <= self.high
    ELSE test_value > self.value

\* A mutant of within: MoreThan matches its own value too.
within_more_or_equal(self, test_value) ==
    IF self.tag = "LessThan" THEN test_value < self.value
    ELSE IF self.tag = "Range" THEN test_value >= self.low /\ test_value <= self.high
    ELSE test_value >= self.value

within(self, test_value) ==
    IF self.tag = "LessThan" THEN test_value < self.value
    ELSE IF self.tag = "Range" THEN test_value >= self.low /\ test_value <= self.high
    ELSE test_value > self.value

StoreUnchanged == UNCHANGED <<store, panicked, layouts, metadata, ctor_in, ctx, out, tab>>

CategoryBinNew ==
    /\ bin = None
    /\ bin' = Some(CategoryBin_new(raw.low, raw.high, raw.value_label))
    /\ last' = [NoCall EXCEPT !.op = "CategoryBin_new"]
    /\ UNCHANGED <<raw, within_out>>
    /\ StoreUnchanged

CategoryBinTryFrom ==
    /\ bin = None
    /\ bin' = Some(CategoryBin_try_from(raw))
    /\ last' = [NoCall EXCEPT !.op = "CategoryBin_try_from"]
    /\ UNCHANGED <<raw, within_out>>
    /\ StoreUnchanged

Within ==
    /\ bin # None
    /\ bin[1].ok
    /\ \E test_value \in BinValues :
          within_out' = Some([test_value |-> test_value,
                              result |-> within(bin[1].value, test_value)])
    /\ UNCHANGED <<raw, bin, last>>
    /\ StoreUnchanged

OptionValues == {None} \cup {Some(x) : x \in BinValues}

\* A CategoryBinRaw as deserialized: any low, any high, any label.
InitBin ==
    /\ store = MetadataEntitiesNew
    /\ panicked = FALSE
    /\ last = NoCall
    /\ layouts = [d \in DatasetNames |-> <<>>]
    /\ metadata = None
    /\ raw \in [code : {0}, value_label : Labels, low : OptionValues, high : OptionValues]
    /\ bin = None
    /\ within_out = None
    /\ ctor_in = NoCtorIn
    /\ ctx = None
    /\ out = None
    /\ tab = NoTab

NextBin ==
    \/ CategoryBinNew
    \/ CategoryBinTryFrom
    \/ Within

SpecBin == InitBin /\ [][NextBin]_vars

(***************************************************************************)
(* Claims about CategoryBin                                                *)
(***************************************************************************)
\* C9: built by new or by try_from, low and high both present with low <= high
\* give Range{low, high}; both present with high < low give an error; only
\* high gives LessThan{high}; only low gives MoreThan{low}; neither gives an
\* error; a bin that is built carries the label it was given.
C9_Construction ==
    bin # None =>
        LET r == bin[1]
            low == raw.low
            high == raw.high
        IN  /\ (low # None /\ high # None /\ low[1] <= high[1]) =>
                  /\ r.ok
                  /\ r.value.tag = "Range"
                  /\ r.value.low = low[1]
                  /\ r.value.high = high[1]
            /\ (low # None /\ high # None /\ high[1] < low[1]) => ~r.ok
            /\ (low = None /\ high # None) =>
                  r.ok /\ r.value.tag = "LessThan" /\ r.value.value = high[1]
            /\ (low # None /\ high = None) =>
                  r.ok /\ r.value.tag = "MoreThan" /\ r.value.value = low[1]
            /\ (low = None /\ high = None) => ~r.ok
            /\ r.ok => r.value.label = raw.value_label

\* try_from has built a Range whose low and high are the same value.
C9_Witness ==
    /\ last.op = "CategoryBin_try_from"
    /\ bin # None
    /\ bin[1].ok
    /\ bin[1].value.tag = "Range"
    /\ raw.low = raw.high
    /\ raw.value_label = "high"

\* What the raw bounds say of x: low <= x <= high with both set, x < high with
\* only high, x > low with only low.
RawSatisfied(low, high, x) ==
    /\ low # None => (IF high # None THEN low[1] <= x ELSE low[1] < x)
    /\ high # None => (IF low # None THEN x <= high[1] ELSE x < high[1])

\* C10: on a bin built from raw bounds, within(x) is true if and only if x
\* satisfies the raw bounds.
C10_WithinRoundTrip ==
    within_out # None =>
        (within_out[1].result <=> RawSatisfied(raw.low, raw.high, within_out[1].test_value))

\* within was asked for the bound of a bin that has only a high, and said no.
C10_Witness ==
    /\ within_out # None
    /\ raw.low = None
    /\ raw.high = Some(within_out[1].test_value)
    /\ within_out[1].result = FALSE

\* C11: a bin built with low = high = k matches k and no other integer;
\* LessThan(k) rejects k and MoreThan(k) rejects k; so of a LessThan(k) and a
\* MoreThan(k) the value k belongs to neither and no integer belongs to both.
C11_Boundaries ==
    (bin # None /\ bin[1].ok) =>
        LET b == bin[1].value
        IN  /\ (within_out # None /\ b.tag = "Range" /\ b.low = b.high) =>
                  (within_out[1].result <=> within_out[1].test_value = b.low)
            /\ (within_out # None /\ b.tag # "Range"
                /\ within_out[1].test_value = b.value) => ~within_out[1].result
            /\ b.tag # "Range" =>
                  LET less == CategoryBin_new(None, Some(b.value), b.label).value
                      more == CategoryBin_new(Some(b.value), None, b.label).value
                  IN  /\ ~within(less, b.value)
                      /\ ~within(more, b.value)
                      /\ \A x \in BinValues : ~(within(less, x) /\ within(more, x))

\* within was asked for k on a bin built with low = high = k, and said yes.
C11_Witness ==
    /\ bin # None
    /\ bin[1].ok
    /\ bin[1].value.tag = "Range"
    /\ bin[1].value.low = bin[1].value.high
    /\ within_out # None
    /\ within_out[1].test_value = bin[1].value.low
    /\ within_out[1].result = TRUE

(***************************************************************************)
(* Strings and paths.  A String that the code converts or formats is a     *)
(* sequence of one-character strings, so that to_ascii_lowercase and       *)
(* format! are computed character by character.  A PathBuf is the sequence *)
(* of its components, which is what equality of paths compares; the root   *)
(* directory is the component "/".                                         *)
(***************************************************************************)
UpperLetters == <<"A", "B", "C", "D", "E", "F", "G", "H", "I", "J", "K", "L", "M", "N", "O", "P", "Q", "R", "S", "T", "U", "V", "W", "X", "Y", "Z">>
LowerLetters == <<"a", "b", "c", "d", "e", "f", "g", "h", "i", "j", "k", "l", "m", "n", "o", "p", "q", "r", "s", "t", "u", "v", "w", "x", "y", "z">>

AsciiLowerChar(c) ==
    IF \E i \in 1..Len(UpperLetters) : UpperLetters[i] = c
    THEN LowerLetters[CHOOSE i \in 1..Len(UpperLetters) : UpperLetters[i] = c]
    ELSE c

AsciiUpperChar(c) ==
    IF \E i \in 1..Len(LowerLetters) : LowerLetters[i] = c
    THEN UpperLetters[CHOOSE i \in 1..Len(LowerLetters) : LowerLetters[i] = c]
    ELSE c

to_ascii_lowercase(s) == [i \in 1..Len(s) |-> AsciiLowerChar(s[i])]
to_ascii_uppercase(s) == [i \in 1..Len(s) |-> AsciiUpperChar(s[i])]
\* str::to_lowercase, on the ASCII strings of this model.
to_lowercase(s) == [i \in 1..Len(s) |-> AsciiLowerChar(s[i])]

Slash == <<"/">>
Dot == <<".">>
Underscore == <<"_">>

\* The pieces of s between its slashes, the empty ones too.
RECURSIVE SplitSlash(_)
SplitSlash(s) ==
    IF \A i \in 1..Len(s) : s[i] # "/" THEN <<s>>
    ELSE LET k == CHOOSE i \in 1..Len(s) :
                      s[i] = "/" /\ \A j \in 1..(i - 1) : s[j] # "/"
         IN  <<SubSeq(s, 1, k - 1)>> \o SplitSlash(SubSeq(s, k + 1, Len(s)))

NonEmpty(piece) == piece # <<>>

IsAbsolute(s) == Len(s) > 0 /\ s[1] = "/"

\* PathBuf::from(string): a leading slash is the root, repeated and trailing
\* slashes separate nothing.
PathBuf_from(s) ==
    (IF IsAbsolute(s) THEN <<Slash>> ELSE <<>>) \o SelectSeq(SplitSlash(s), NonEmpty)

\* Path::join(string): an absolute argument replaces the path.
Path_join(path, s) == IF IsAbsolute(s) THEN PathBuf_from(s) ELSE path \o PathBuf_from(s)

(***************************************************************************)
(* defaults.rs: the household and person structure of the built-in         *)
(* products.  RecordWeight and RecordHierarchy are types of                *)
(* ipums_data_model.                                                       *)
(***************************************************************************)
RecordWeight_new(name, divisor) == [name |-> name, divisor |-> divisor]

\* A rooted tree over record type codes: the root and, for each other member, its parent.
RecordHierarchy_new(root) == [root |-> root, members |-> {[name |-> root, parent |-> None]}]

HierarchyNames(hierarchy) == {m.name : m \in hierarchy.members}

\* add_member(child, parent): the parent must be a member and the child must not.
RecordHierarchy_add_member(hierarchy, child, parent) ==
    IF parent \in HierarchyNames(hierarchy) /\ child \notin HierarchyNames(hierarchy)
    THEN Ok([hierarchy EXCEPT !.members = @ \cup {[name |-> child, parent |-> Some(parent)]}])
    ELSE Err(<<"cannot add member">>)

default_household_weight == RecordWeight_new("HHWT", 100)

default_person_weight == RecordWeight_new("PERWT", 100)

household ==
    [name |-> <<"H", "o", "u", "s", "e", "h", "o", "l", "d">>,
     value |-> <<"H">>,
     unique_id |-> "SERIAL",
     foreign_keys |-> <<>>,
     weight |-> Some(default_household_weight)]

\* A mutant of person: a person record with no link to its household.
person_without_foreign_key ==
    [name |-> <<"P", "e", "r", "s", "o", "n">>,
     value |-> <<"P">>,
     unique_id |-> "PSERIAL",
     foreign_keys |-> <<>>,
     weight |-> Some(default_person_weight)]

person ==
    [name |-> <<"P", "e", "r", "s", "o", "n">>,
     value |-> <<"P">>,
     unique_id |-> "PSERIAL",
     foreign_keys |-> <<[rectype |-> <<"H">>, key |-> "SERIALP"]>>,
     weight |-> Some(default_person_weight)]

default_record_types ==
    [code \in {<<"H">>, <<"P">>} |-> IF code = <<"H">> THEN household ELSE person]

\* The assert!(result.is_ok()) is a panic when add_member fails.
default_hierarchy ==
    LET hierarchy == RecordHierarchy_new(<<"H">>)
        result == RecordHierarchy_add_member(hierarchy, <<"P">>, <<"H">>)
    IN  IF result.ok THEN [panicked |-> FALSE, value |-> result.value]
        ELSE [panicked |-> TRUE, value |-> hierarchy]

default_settings_named(name) ==
    [name |-> name,
     record_hierarchy |-> default_hierarchy.value,
     record_types |-> default_record_types,
     default_unit_of_analysis |-> person,
     metadata |-> None]

\* A mutant of defaults_for: the product name is matched as it was given.
defaults_for_case_sensitive(product) ==
    IF product = <<"u", "s", "a">> THEN [panicked |-> FALSE, value |-> default_settings_named(<<"U", "S", "A">>)]
    ELSE IF product = <<"c", "p", "s">> THEN [panicked |-> FALSE, value |-> default_settings_named(<<"c", "p", "s">>)]
    ELSE IF product = <<"i", "p", "u", "m", "s", "i">>
         THEN [panicked |-> FALSE, value |-> default_settings_named(<<"i", "p", "u", "m", "s", "i">>)]
    ELSE [panicked |-> TRUE, msg |-> "Product not supported"]

\* The match on product.to_lowercase(); the names handed on are the literals
\* of its arms.
defaults_for(product) ==
    LET lowered == to_lowercase(product)
    IN  IF default_hierarchy.panicked /\ lowered \in {<<"u", "s", "a">>, <<"c", "p", "s">>, <<"i", "p", "u", "m", "s", "i">>}
        THEN [panicked |-> TRUE, msg |-> "assertion failed: result.is_ok()"]
        ELSE IF lowered = <<"u", "s", "a">>
             THEN [panicked |-> FALSE, value |-> default_settings_named(<<"U", "S", "A">>)]
        ELSE IF lowered = <<"c", "p", "s">>
             THEN [panicked |-> FALSE, value |-> default_settings_named(<<"c", "p", "s">>)]
        ELSE IF lowered = <<"i", "p", "u", "m", "s", "i">>
             THEN [panicked |-> FALSE, value |-> default_settings_named(<<"i", "p", "u", "m", "s", "i">>)]
        ELSE [panicked |-> TRUE, msg |-> "Product not supported"]

(***************************************************************************)
(* Context                                                                 *)
(***************************************************************************)
PkgIpums == <<"/", "p", "k", "g", "/", "i", "p", "u", "m", "s", "/">>
OutputData == <<"o", "u", "t", "p", "u", "t", "_", "d", "a", "t", "a">>
Current == <<"c", "u", "r", "r", "e", "n", "t">>

\* exists is what product_root.exists() finds on the disk.  The default data
\* root is built from /pkg/ipums/<name>, not from the product root chosen.
from_ipums_collection_name(name, other_product_root, other_data_root, exists) ==
    LET product_root == IF other_product_root # None
                        THEN PathBuf_from(other_product_root[1])
                        ELSE PathBuf_from(PkgIpums \o name)
        data_root == IF other_data_root # None
                     THEN PathBuf_from(other_data_root[1])
                     ELSE Path_join(Path_join(PathBuf_from(PkgIpums \o name), OutputData),
                                    Current)
        settings == defaults_for(name)
    IN  IF settings.panicked THEN [panicked |-> TRUE, msg |-> settings.msg]
        ELSE [panicked |-> FALSE,
              value |-> [name |-> name,
                         product_root |-> Some(product_root),
                         data_root |-> Some(data_root),
                         settings |-> settings.value,
                         allow_full_metadata |-> exists,
                         enable_full_metadata |-> FALSE]]

\* Product names a caller may give: the built-in ones in several letter cases,
\* and names that are not built in.
ProductNames ==
    {<<"u", "s", "a">>, <<"U", "S", "A">>, <<"u", "S", "a">>, <<"c", "p", "s">>, <<"C", "P", "S">>, <<"i", "p", "u", "m", "s", "i">>, <<"I", "P", "U", "M", "S", "I">>, <<"a", "t", "u", "s">>, <<"u", "s">>}
ProductRoots == {None, Some(<<"/", "s", "r", "v", "/", "u", "s", "a">>)}
DataRoots == {None, Some(<<"t", "e", "s", "t", "/", "d", "a", "t", "a", "_", "r", "o", "o", "t">>), Some(<<"d", "a", "t", "a", "/">>)}

FromIpumsCollectionName ==
    /\ ~panicked
    /\ ctx = None
    /\ LET r == from_ipums_collection_name(ctor_in.name, ctor_in.other_product_root,
                                           ctor_in.other_data_root,
                                           ctor_in.product_root_exists)
       IN  /\ panicked' = r.panicked
           /\ ctx' = IF r.panicked THEN None ELSE Some(r.value)
           /\ out' = Some([op |-> "from_ipums_collection_name",
                           panicked |-> r.panicked,
                           value |-> IF r.panicked THEN r.msg ELSE "Context"])
    /\ last' = [NoCall EXCEPT !.op = "from_ipums_collection_name"]
    /\ UNCHANGED <<store, layouts, metadata, raw, bin, within_out, ctor_in, tab>>

InitConv ==
    /\ store = MetadataEntitiesNew
    /\ panicked = FALSE
    /\ last = NoCall
    /\ layouts = [d \in DatasetNames |-> <<>>]
    /\ metadata = None
    /\ raw = [code |-> 0, value_label |-> "low", low |-> None, high |-> None]
    /\ bin = None
    /\ within_out = None
    /\ ctor_in \in [name : ProductNames, other_product_root : ProductRoots,
                    other_data_root : DataRoots, product_root_exists : BOOLEAN]
    /\ ctx = None
    /\ out = None
    /\ tab = NoTab

(***************************************************************************)
(* File and table naming conventions                                       *)
(***************************************************************************)
\* A mutant of base_filename_for_dataset: the product name keeps its letter case.
base_filename_for_dataset_keeps_case(settings, dataset_name) ==
    dataset_name \o Underscore \o settings.name

base_filename_for_dataset(settings, dataset_name) ==
    dataset_name \o Underscore \o to_ascii_lowercase(settings.name)

base_filename_for_dataset_and_rectype(settings, dataset_name, record_type_abbrev) ==
    base_filename_for_dataset(settings, dataset_name) \o Dot
        \o to_ascii_uppercase(record_type_abbrev)

default_table_name(settings, dataset_name, record_type_abbrev) ==
    IF record_type_abbrev \in DOMAIN settings.record_types
    THEN [panicked |-> FALSE,
          value |-> base_filename_for_dataset(settings, dataset_name) \o Underscore
                        \o to_ascii_lowercase(settings.record_types[record_type_abbrev].name)]
    ELSE [panicked |-> TRUE, value |-> record_type_abbrev]

InputTypes == {"Fw", "Parquet", "Csv"}

data_sub_directory(data_format) ==
    CASE data_format = "Csv" -> Some(<<"c", "s", "v">>)
      [] data_format = "Parquet" -> Some(<<"p", "a", "r", "q", "u", "e", "t">>)
      [] OTHER -> None

Extension(data_format) ==
    CASE data_format = "Csv" -> <<"c", "s", "v">>
      [] data_format = "Parquet" -> <<"p", "a", "r", "q", "u", "e", "t">>
      [] data_format = "Fw" -> <<"d", "a", "t", ".", "g", "z">>

\* A mutant of paths_from_dataset_name: the files of a dataset lie directly
\* in the format's directory.
paths_from_dataset_name_flat(context, dataset_name, data_format) ==
    IF context.data_root = None THEN [panicked |-> TRUE, value |-> <<>>]
    ELSE LET data_path == context.data_root[1]
             extension == Extension(data_format)
         IN  IF data_format \in {"Csv", "Parquet"}
             THEN [panicked |-> FALSE,
                   value |-> [rt \in DOMAIN context.settings.record_types |->
                       Path_join(Path_join(data_path, data_sub_directory(data_format)[1]),
                                 base_filename_for_dataset_and_rectype(
                                     context.settings, dataset_name, rt)
                                 \o Dot \o extension)]]
             ELSE [panicked |-> FALSE,
                   value |-> [key \in {<<>>} |->
                       Path_join(data_path,
                                 base_filename_for_dataset(context.settings, dataset_name)
                                 \o Dot \o extension)]]

\* The HashMap returned is a function from its keys to the paths.
paths_from_dataset_name(context, dataset_name, data_format) ==
    IF context.data_root = None THEN [panicked |-> TRUE, value |-> <<>>]
    ELSE LET data_path == context.data_root[1]
             extension == Extension(data_format)
         IN  IF data_format \in {"Csv", "Parquet"}
             THEN IF DOMAIN context.settings.record_types # {}
                     /\ data_sub_directory(data_format) = None
                  THEN [panicked |-> TRUE, value |-> <<>>]
                  ELSE [panicked |-> FALSE,
                        value |-> [rt \in DOMAIN context.settings.record_types |->
                            LET sub_dir == data_sub_directory(data_format)[1]
                                parent_dir == Path_join(Path_join(data_path, sub_dir),
                                                        dataset_name)
                                base_filename == base_filename_for_dataset_and_rectype(
                                                     context.settings, dataset_name, rt)
                                full_filename == base_filename \o Dot \o extension
                            IN  Path_join(parent_dir, full_filename)]]
             ELSE LET base_filename == base_filename_for_dataset(context.settings,
                                                                 dataset_name)
                      full_filename == base_filename \o Dot \o extension
                  IN  [panicked |-> FALSE,
                       value |-> [key \in {<<>>} |-> Path_join(data_path, full_filename)]]

\* Dataset names and record type codes a caller may give.
DatasetStrings == {<<"u", "s", "2", "0", "1", "5", "a">>, <<"u", "s", "2", "0", "1", "5", "b">>, <<"U", "S", "2", "0", "1", "5", "B">>}
RecordTypeArgs == {<<"H">>, <<"P">>, <<"p">>, <<"X">>}

PathsFromDatasetName ==
    /\ ~panicked
    /\ ctx # None
    /\ \E dataset_name \in DatasetStrings, data_format \in InputTypes :
          LET r == paths_from_dataset_name(ctx[1], dataset_name, data_format)
          IN  /\ panicked' = r.panicked
              /\ out' = Some([op |-> "paths_from_dataset_name",
                              dataset_name |-> dataset_name,
                              data_format |-> data_format,
                              panicked |-> r.panicked,
                              value |-> r.value])
    /\ last' = [NoCall EXCEPT !.op = "paths_from_dataset_name"]
    /\ UNCHANGED <<store, layouts, metadata, raw, bin, within_out, ctor_in, ctx, tab>>

DefaultTableName ==
    /\ ~panicked
    /\ ctx # None
    /\ \E dataset_name \in DatasetStrings, record_type_abbrev \in RecordTypeArgs :
          LET r == default_table_name(ctx[1].settings, dataset_name, record_type_abbrev)
          IN  /\ panicked' = r.panicked
              /\ out' = Some([op |-> "default_table_name",
                              dataset_name |-> dataset_name,
                              record_type_abbrev |-> record_type_abbrev,
                              panicked |-> r.panicked,
                              value |-> r.value])
    /\ last' = [NoCall EXCEPT !.op = "default_table_name"]
    /\ UNCHANGED <<store, layouts, metadata, raw, bin, within_out, ctor_in, ctx, tab>>

NextConv == FromIpumsCollectionName \/ PathsFromDatasetName \/ DefaultTableName

SpecConv == InitConv /\ [][NextConv]_vars

(***************************************************************************)
(* Claims about the naming conventions and the Context                     *)
(***************************************************************************)
PathsReturned ==
    out # None /\ out[1].op = "paths_from_dataset_name" /\ ~out[1].panicked

\* C12: for the Parquet and CSV formats the returned map has exactly one
\* entry per record type of the collection, keyed by the record type code;
\* its value is the data root followed by the format's directory, the
\* dataset's directory and the file <dataset>_<product_lower>.<RT>.<ext>,
\* where the directory and the extension are both "parquet" or both "csv"
\* and <RT> is the code in upper case.  On the data root test/data_root
\* of product usa, "P" of us2015b in Parquet is
\* test/data_root/parquet/us2015b/us2015b_usa.P.parquet.
C12_ColumnarPaths ==
    (PathsReturned /\ out[1].data_format \in {"Parquet", "Csv"}) =>
        LET paths == out[1].value
            ext == IF out[1].data_format = "Parquet" THEN <<"p", "a", "r", "q", "u", "e", "t">> ELSE <<"c", "s", "v">>
            dataset == out[1].dataset_name
            product_lower == to_ascii_lowercase(ctx[1].settings.name)
        IN  /\ DOMAIN paths = DOMAIN ctx[1].settings.record_types
            /\ \A rt \in DOMAIN paths :
                  paths[rt] = ctx[1].data_root[1] \o
                      <<ext, dataset,
                        dataset \o Underscore \o product_lower \o Dot
                            \o to_ascii_uppercase(rt) \o Dot \o ext>>
            /\ (/\ ctor_in.name = <<"u", "s", "a">>
                /\ ctor_in.other_data_root = Some(<<"t", "e", "s", "t", "/", "d", "a", "t", "a", "_", "r", "o", "o", "t">>)
                /\ dataset = <<"u", "s", "2", "0", "1", "5", "b">>
                /\ out[1].data_format = "Parquet") =>
                  paths[<<"P">>] =
                      PathBuf_from(<<"t", "e", "s", "t", "/", "d", "a", "t", "a", "_", "r", "o", "o", "t", "/", "p", "a", "r", "q", "u", "e", "t", "/", "u", "s", "2", "0", "1", "5", "b", "/", "u", "s", "2", "0", "1", "5", "b", "_", "u", "s", "a", ".", "P", ".", "p", "a", "r", "q", "u", "e", "t">>)

C12_Witness ==
    /\ PathsReturned
    /\ out[1].data_format = "Parquet"
    /\ ctor_in.name = <<"u", "s", "a">>
    /\ ctor_in.other_data_root = Some(<<"t", "e", "s", "t", "/", "d", "a", "t", "a", "_", "r", "o", "o", "t">>)
    /\ out[1].dataset_name = <<"u", "s", "2", "0", "1", "5", "b">>
    /\ <<"P">> \in DOMAIN out[1].value
    /\ Len(out[1].value[<<"P">>]) = 5

\* C13: for the fixed-width format the returned map has exactly one entry,
\* keyed by the empty string, whose value is the file
\* <dataset>_<product_lower>.dat.gz directly in the data root, whatever the
\* record types of the collection are.
C13_FixedWidthPath ==
    (PathsReturned /\ out[1].data_format = "Fw") =>
        LET paths == out[1].value
            dataset == out[1].dataset_name
            product_lower == to_ascii_lowercase(ctx[1].settings.name)
        IN  /\ DOMAIN paths = {<<>>}
            /\ paths[<<>>] = ctx[1].data_root[1] \o
                   <<dataset \o Underscore \o product_lower \o <<".", "d", "a", "t", ".", "g", "z">>>>
            /\ (/\ ctor_in.name = <<"U", "S", "A">>
                /\ ctor_in.other_data_root = None
                /\ dataset = <<"u", "s", "2", "0", "1", "5", "b">>) =>
                  paths[<<>>] =
                      PathBuf_from(<<"/", "p", "k", "g", "/", "i", "p", "u", "m", "s", "/", "U", "S", "A", "/", "o", "u", "t", "p", "u", "t", "_", "d", "a", "t", "a", "/", "c", "u", "r", "r", "e", "n", "t", "/", "u", "s", "2", "0", "1", "5", "b", "_", "u", "s", "a", ".", "d", "a", "t", ".", "g", "z">>)

C13_Witness ==
    /\ PathsReturned
    /\ out[1].data_format = "Fw"
    /\ ctor_in.name = <<"U", "S", "A">>
    /\ ctor_in.other_data_root = None
    /\ out[1].dataset_name = <<"u", "s", "2", "0", "1", "5", "b">>
    /\ Cardinality(DOMAIN ctx[1].settings.record_types) = 2
    /\ Cardinality(DOMAIN out[1].value) = 1

IdentifierChars ==
    {LowerLetters[i] : i \in 1..Len(LowerLetters)}
        \cup {UpperLetters[i] : i \in 1..Len(UpperLetters)}
        \cup {"0", "1", "2", "3", "4", "5", "6", "7", "8", "9", "_"}

\* Letters, digits and underscores, the first one not a digit.
LegalSqlIdentifier(s) ==
    /\ Len(s) > 0
    /\ \A i \in 1..Len(s) : s[i] \in IdentifierChars
    /\ s[1] \notin {"0", "1", "2", "3", "4", "5", "6", "7", "8", "9"}

TableNameReturned ==
    out # None /\ out[1].op = "default_table_name" /\ ~out[1].panicked

\* C14: the table alias of a dataset and a valid record type code is
\* <dataset>_<rt_name_lower>, the record type's name in lower case after the
\* dataset name and an underscore (us2015b and P give us2015b_person), and
\* it is a legal SQL identifier.
C14_TableAlias ==
    TableNameReturned =>
        LET rt == ctx[1].settings.record_types[out[1].record_type_abbrev]
        IN  /\ out[1].value = out[1].dataset_name \o Underscore \o to_ascii_lowercase(rt.name)
            /\ LegalSqlIdentifier(out[1].value)

\* C15: the product name of the settings is in upper case: for every
\* supported product name, in any letter case, the settings of the Context
\* built from it are named "USA", "CPS" or "IPUMSI", the name given in
\* upper case.
C15_ProductNameUppercase ==
    ctx # None =>
        /\ ctx[1].settings.name = to_ascii_uppercase(ctor_in.name)
        /\ ctx[1].settings.name \in {<<"U", "S", "A">>, <<"C", "P", "S">>, <<"I", "P", "U", "M", "S", "I">>}

\* C16: every built-in product gets the same household and person
\* structure: the record types are exactly H and P; the hierarchy has the
\* one root H, and P is in it once, as a child of H; H has the key SERIAL
\* and the weight HHWT/100; P has the key PSERIAL, the weight PERWT/100
\* and a foreign key SERIALP to H; the default unit of analysis is the
\* person record type, which is one of the record types.
C16_HouseholdPersonStructure ==
    ctx # None =>
        LET settings == ctx[1].settings
            members == settings.record_hierarchy.members
            H == settings.record_types[<<"H">>]
            P == settings.record_types[<<"P">>]
        IN  /\ DOMAIN settings.record_types = {<<"H">>, <<"P">>}
            /\ {m \in members : m.parent = None} = {[name |-> <<"H">>, parent |-> None]}
            /\ settings.record_hierarchy.root = <<"H">>
            /\ {m \in members : m.name = <<"P">>}
                   = {[name |-> <<"P">>, parent |-> Some(<<"H">>)]}
            /\ {m.name : m \in members} = {<<"H">>, <<"P">>}
            /\ Cardinality(members) = 2
            /\ H.value = <<"H">> /\ H.unique_id = "SERIAL"
            /\ H.weight = Some([name |-> "HHWT", divisor |-> 100])
            /\ H.foreign_keys = <<>>
            /\ P.value = <<"P">> /\ P.unique_id = "PSERIAL"
            /\ P.weight = Some([name |-> "PERWT", divisor |-> 100])
            /\ P.foreign_keys = <<[rectype |-> <<"H">>, key |-> "SERIALP"]>>
            /\ settings.default_unit_of_analysis = P
            /\ settings.default_unit_of_analysis.value \in DOMAIN settings.record_types

C16_Witness ==
    /\ ctx # None
    /\ ctor_in.name = <<"I", "P", "U", "M", "S", "I">>
    /\ ctx[1].settings.default_unit_of_analysis.value = <<"P">>
    /\ Cardinality(ctx[1].settings.record_hierarchy.members) = 2

\* The same letters, whatever their case.
SameIgnoringCase(a, b) ==
    /\ Len(a) = Len(b)
    /\ \A i \in 1..Len(a) :
          \/ a[i] = b[i]
          \/ \E k \in 1..Len(LowerLetters) :
                {a[i], b[i]} = {LowerLetters[k], UpperLetters[k]}

BuiltInProduct(name) ==
    \E product \in {<<"u", "s", "a">>, <<"c", "p", "s">>, <<"i", "p", "u", "m", "s", "i">>} : SameIgnoringCase(name, product)

ConstructorActed == out # None

\* C17: building a Context from a product name that is none of the built-in
\* products, compared without regard to letter case, fails and leaves no
\* Context; each of the three built-in names, in any letter case, gives one.
C17_UnknownProductFails ==
    ConstructorActed =>
        /\ BuiltInProduct(ctor_in.name) => (ctx # None /\ ctx[1].name = ctor_in.name)
        /\ ~BuiltInProduct(ctor_in.name) =>
              (/\ ctx = None
               /\ panicked
               /\ out[1].op = "from_ipums_collection_name"
               /\ out[1].panicked
               /\ out[1].value = "Product not supported")

C17_Witness ==
    /\ ConstructorActed
    /\ ctor_in.name = <<"a", "t", "u", "s">>
    /\ panicked
    /\ ctx = None

\* C18: the Context built from a collection name has as product root the
\* override or else /pkg/ipums/<name>, and as data root the override or else
\* output_data/current under the product root chosen, an overridden one
\* included; enable_full_metadata starts false.
C18_RootsByConvention ==
    ctx # None =>
        LET chosen_product_root ==
                IF ctor_in.other_product_root # None
                THEN PathBuf_from(ctor_in.other_product_root[1])
                ELSE <<Slash, <<"p", "k", "g">>, <<"i", "p", "u", "m", "s">>, ctor_in.name>>
        IN  /\ ctx[1].product_root = Some(chosen_product_root)
            /\ ctx[1].data_root =
                   IF ctor_in.other_data_root # None
                   THEN Some(PathBuf_from(ctor_in.other_data_root[1]))
                   ELSE Some(chosen_product_root \o <<<<"o", "u", "t", "p", "u", "t", "_", "d", "a", "t", "a">>, <<"c", "u", "r", "r", "e", "n", "t">>>>)
            /\ ctx[1].enable_full_metadata = FALSE

(***************************************************************************)
(* SimpleRequest::from_names                                               *)
(***************************************************************************)
MaxRequestLen == 2

\* self.settings.metadata after the load that gave r.
with_loaded_metadata(context, r) ==
    IF r.panicked THEN [panicked |-> TRUE, msg |-> "add_or_update", ctx |-> context]
    ELSE [panicked |-> FALSE, msg |-> "",
          ctx |-> [context EXCEPT !.settings.metadata = Some(r.md)]]

\* Context::load_metadata_for_datasets on a context value; files are the
\* layout files found under the data root.
load_metadata_for_datasets(context, datasets, files) ==
    IF ~context.enable_full_metadata
    THEN IF context.data_root # None
         THEN with_loaded_metadata(context,
                  load_metadata_for_selected_datasets_from_layouts(datasets, files))
         ELSE [panicked |-> TRUE, msg |-> "Cannot load any metadata without a data_root",
               ctx |-> context]
    ELSE [panicked |-> TRUE, msg |-> "Loading metadata from database not implemented.",
          ctx |-> context]

UnitOfAnalysisMessage(uoa, rectype_names) ==
    [text |-> "Record type not available for use as unit of analysis",
     uoa |-> uoa, rectype_names |-> rectype_names]

\* A mutant of validated_unit_of_analysis: the argument is not looked at.
validated_unit_of_analysis_always_default(context, unit_of_analysis) ==
    [panicked |-> FALSE, value |-> context.settings.default_unit_of_analysis]

\* The panic's message is formatted from uoa and the keys of record_types.
validated_unit_of_analysis(context, unit_of_analysis) ==
    LET uoa == IF unit_of_analysis # None THEN unit_of_analysis[1]
               ELSE context.settings.default_unit_of_analysis.value
    IN  IF uoa \in DOMAIN context.settings.record_types
        THEN [panicked |-> FALSE, value |-> context.settings.record_types[uoa]]
        ELSE [panicked |-> TRUE,
              msg |-> UnitOfAnalysisMessage(uoa, DOMAIN context.settings.record_types)]

\* The loop over requested_variables, from position i on.
RECURSIVE loaded_vars_from(_, _, _, _)
loaded_vars_from(md, requested_variables, i, loaded_vars) ==
    IF i > Len(requested_variables) THEN [panicked |-> FALSE, value |-> loaded_vars]
    ELSE LET rv == requested_variables[i]
         IN  IF rv \in DOMAIN md.variables_by_name
             THEN loaded_vars_from(md, requested_variables, i + 1,
                      Append(loaded_vars, md.variables_index[md.variables_by_name[rv] + 1]))
             ELSE [panicked |-> TRUE,
                   msg |-> [text |-> "Variable not in any loaded metadata.", name |-> rv]]

\* The loop over requested_datasets, from position i on.
RECURSIVE loaded_datasets_from(_, _, _, _)
loaded_datasets_from(md, requested_datasets, i, loaded_datasets) ==
    IF i > Len(requested_datasets) THEN [panicked |-> FALSE, value |-> loaded_datasets]
    ELSE LET rd == requested_datasets[i]
         IN  IF rd \in DOMAIN md.datasets_by_name
             THEN loaded_datasets_from(md, requested_datasets, i + 1,
                      Append(loaded_datasets, md.datasets_index[md.datasets_by_name[rd] + 1]))
             ELSE [panicked |-> TRUE,
                   msg |-> [text |-> "No dataset found in metadata or layouts!", name |-> rd]]

Panic(msg) == [panicked |-> TRUE, msg |-> msg, value |-> None]

\* from_names from its loop over requested_datasets on: the value returned.
from_names_datasets(product, context, unit_rectype, variables, requested_datasets) ==
    LET datasets == IF context.settings.metadata # None
                    THEN loaded_datasets_from(context.settings.metadata[1],
                                              requested_datasets, 1, <<>>)
                    ELSE [panicked |-> FALSE, value |-> <<>>]
    IN  IF datasets.panicked THEN Panic(datasets.msg)
        ELSE [panicked |-> FALSE,
              msg |-> "",
              value |-> Some([ctx |-> context,
                              request |-> [product |-> product,
                                           datasets |-> datasets.value,
                                           variables |-> variables,
                                           unit_rectype |-> unit_rectype,
                                           request_type |-> "Tabulation",
                                           output_format |-> "CSV",
                                           conditions |-> None]])]

\* from_names from its loop over requested_variables on.
from_names_variables(product, context, unit_rectype, requested_datasets, requested_variables) ==
    LET variables == IF context.settings.metadata # None
                     THEN loaded_vars_from(context.settings.metadata[1],
                                           requested_variables, 1, <<>>)
                     ELSE [panicked |-> FALSE, value |-> <<>>]
    IN  IF variables.panicked THEN Panic(variables.msg)
        ELSE from_names_datasets(product, context, unit_rectype, variables.value,
                                 requested_datasets)

\* from_names once the metadata are loaded into the context.
from_names_unit_rectype(product, context, requested_datasets, requested_variables, unit_of_analysis) ==
    LET unit_rectype == validated_unit_of_analysis(context, unit_of_analysis)
    IN  IF unit_rectype.panicked THEN Panic(unit_rectype.msg)
        ELSE from_names_variables(product, context, unit_rectype.value,
                                  requested_datasets, requested_variables)

\* from_names once load_metadata_for_datasets has given loaded.
from_names_loaded(product, loaded, requested_datasets, requested_variables, unit_of_analysis) ==
    IF loaded.panicked THEN Panic(loaded.msg)
    ELSE from_names_unit_rectype(product, loaded.ctx, requested_datasets,
                                 requested_variables, unit_of_analysis)

\* from_names once from_ipums_collection_name has given built.
from_names_built(product, built, requested_datasets, requested_variables, unit_of_analysis, files) ==
    IF built.panicked THEN Panic(built.msg)
    ELSE from_names_loaded(product,
                           load_metadata_for_datasets(built.value, requested_datasets, files),
                           requested_datasets, requested_variables, unit_of_analysis)

\* Returns (Context, SimpleRequest): the return type has no error value, every
\* failure is a panic.  optional_product_root is not handed on.
from_names(product, requested_datasets, requested_variables, unit_of_analysis, optional_product_root, optional_data_root, files, exists) ==
    from_names_built(product,
                     from_ipums_collection_name(product, None, optional_data_root, exists),
                     requested_datasets, requested_variables, unit_of_analysis, files)

\* What a caller may ask for: a variable of no layout among the names, and
\* record type codes that exist and one that does not.
RequestedVariableNames == VariableNames \cup {"NOSUCH"}
UnitOfAnalysisArgs == {None, Some(<<"H">>), Some(<<"P">>), Some(<<"X">>)}
RequestProducts == {<<"u", "s", "a">>, <<"C", "P", "S">>, <<"a", "t", "u", "s">>}

\* The layout files under the data root: a dataset with two variables and
\* one with one or none, or both with the same variables.
RequestLayouts ==
    {[d \in DatasetNames |-> IF d = "us2015a" THEN <<"AGE", "GQ">> ELSE <<"AGE">>],
     [d \in DatasetNames |-> IF d = "us2015a" THEN <<"GQ">> ELSE <<>>],
     [d \in DatasetNames |-> <<"AGE", "GQ">>]}

FromNames ==
    /\ ~panicked
    /\ out = None
    /\ LET r == from_names(ctor_in.name, ctor_in.requested_datasets,
                           ctor_in.requested_variables, ctor_in.unit_of_analysis,
                           ctor_in.other_product_root, ctor_in.other_data_root,
                           layouts, ctor_in.product_root_exists)
       IN  /\ panicked' = r.panicked
           /\ ctx' = IF r.panicked THEN None ELSE Some(r.value[1].ctx)
           /\ out' = Some([op |-> "from_names",
                           panicked |-> r.panicked,
                           msg |-> r.msg,
                           err |-> None,
                           request |-> IF r.panicked THEN None
                                       ELSE Some(r.value[1].request)])
    /\ last' = [NoCall EXCEPT !.op = "from_names"]
    /\ UNCHANGED <<store, layouts, metadata, raw, bin, within_out, ctor_in, tab>>

InitReq ==
    /\ store = MetadataEntitiesNew
    /\ panicked = FALSE
    /\ last = NoCall
    /\ layouts \in RequestLayouts
    /\ metadata = None
    /\ raw = [code |-> 0, value_label |-> "low", low |-> None, high |-> None]
    /\ bin = None
    /\ within_out = None
    /\ ctor_in \in [name : RequestProducts,
                    requested_datasets : SeqsUpTo(DatasetNames, MaxRequestLen),
                    requested_variables : SeqsUpTo(RequestedVariableNames, MaxRequestLen),
                    unit_of_analysis : UnitOfAnalysisArgs,
                    other_product_root : {None},
                    other_data_root : {None, Some(<<"t", "e", "s", "t", "/", "d", "a", "t", "a", "_", "r", "o", "o", "t">>)},
                    product_root_exists : {FALSE}]
    /\ ctx = None
    /\ out = None
    /\ tab = NoTab

NextReq == FromNames

SpecReq == InitReq /\ [][NextReq]_vars

(***************************************************************************)
(* Claims about SimpleRequest construction                                 *)
(***************************************************************************)
FromNamesActed == out # None /\ out[1].op = "from_names"

\* The metadata the request's names are checked against.
LoadedForRequest ==
    load_metadata_for_selected_datasets_from_layouts(ctor_in.requested_datasets, layouts).md

UnknownVariables ==
    {ctor_in.requested_variables[i] : i \in 1..Len(ctor_in.requested_variables)}
        \ DOMAIN LoadedForRequest.variables_by_name

UnknownDatasets ==
    {ctor_in.requested_datasets[i] : i \in 1..Len(ctor_in.requested_datasets)}
        \ DOMAIN LoadedForRequest.datasets_by_name

ChosenUnitOfAnalysis ==
    IF ctor_in.unit_of_analysis # None THEN ctor_in.unit_of_analysis[1]
    ELSE default_settings_named(ctor_in.name).default_unit_of_analysis.value

NamesOf(entities) == [i \in 1..Len(entities) |-> entities[i].name]

\* C19: building a SimpleRequest checks every requested variable and
\* dataset name against the loaded metadata: when a requested name is
\* unknown, the construction returns an error value that carries the
\* offending name, without aborting the process, and no request is made;
\* when all names are known, the request holds exactly the requested
\* variables and datasets, in the order of the request.
C19_NamesValidatedThroughResult ==
    (/\ FromNamesActed
     /\ BuiltInProduct(ctor_in.name)
     /\ ChosenUnitOfAnalysis \in DOMAIN default_record_types) =>
        IF UnknownVariables \cup UnknownDatasets # {}
        THEN /\ ~out[1].panicked
             /\ out[1].request = None
             /\ out[1].err # None
             /\ out[1].err[1].name \in UnknownVariables \cup UnknownDatasets
        ELSE /\ ~out[1].panicked
             /\ out[1].request # None
             /\ NamesOf(out[1].request[1].variables) = ctor_in.requested_variables
             /\ NamesOf(out[1].request[1].datasets) = ctor_in.requested_datasets

\* C20: the unit of analysis of a request is the record type named by the
\* argument when one is given, otherwise the product's default; when the
\* code chosen is no record type of the context, construction fails with a
\* message that lists the valid record type codes; when construction
\* succeeds, unit_rectype is one of the context's record types.
C20_UnitOfAnalysis ==
    (FromNamesActed /\ BuiltInProduct(ctor_in.name)) =>
        /\ ChosenUnitOfAnalysis \notin {<<"H">>, <<"P">>} =>
              (/\ out[1].panicked
               /\ out[1].request = None
               /\ out[1].msg.uoa = ChosenUnitOfAnalysis
               /\ out[1].msg.rectype_names = {<<"H">>, <<"P">>})
        /\ out[1].request # None =>
              (/\ out[1].request[1].unit_rectype.value = ChosenUnitOfAnalysis
               /\ ChosenUnitOfAnalysis \in DOMAIN ctx[1].settings.record_types
               /\ out[1].request[1].unit_rectype
                      = ctx[1].settings.record_types[ChosenUnitOfAnalysis]
               /\ (ctor_in.unit_of_analysis = None =>
                      out[1].request[1].unit_rectype
                          = ctx[1].settings.default_unit_of_analysis))

C20_Witness ==
    /\ FromNamesActed
    /\ ctor_in.unit_of_analysis = Some(<<"H">>)
    /\ out[1].request # None
    /\ out[1].request[1].unit_rectype.value = <<"H">>
    /\ Len(out[1].request[1].variables) = 2

(***************************************************************************)
(* tabulate.rs: the output columns and tables                              *)
(*                                                                         *)
(* An IpumsVariable is here the record of the fields tabulate.rs reads:    *)
(* name, formatting (start, width), general_width and data_type.           *)
(***************************************************************************)
MaxTabVars == 2       \* a request names at most this many variables
MaxTabSamples == 2    \* a request names at most this many samples
MaxTabRows == 2       \* a query returns at most this many rows

Digits == <<"0", "1", "2", "3", "4", "5", "6", "7", "8", "9">>

\* format!("{}", item) of a non-negative integer: its decimal digits.
RECURSIVE NatToString(_)
NatToString(n) ==
    IF n < 10 THEN <<Digits[n + 1]>>
    ELSE NatToString(n \div 10) \o <<Digits[(n % 10) + 1]>>

\* format!("{}", item) of an isize.
IntToString(item) == IF item < 0 THEN <<"-">> \o NatToString(0 - item) ELSE NatToString(item)

RequestVariable_from_ipums_variable(var) ==
    [variable |-> var,
     is_detailed |-> TRUE,
     general_divisor |-> 1,
     name |-> var.name,
     case_selection |-> None]

Constructed(name, width, data_type) ==
    [tag |-> "Constructed", name |-> name, width |-> width, data_type |-> data_type]

RequestVar(v) == [tag |-> "RequestVar", v |-> v]

OutputColumn_name(column) ==
    IF column.tag = "Constructed" THEN column.name ELSE column.v.name

\* RequestVariable::is_general: the variable is asked for in its general, not
\* its detailed, version.
is_general(v) == ~v.is_detailed

OutputColumn_width(column) ==
    IF column.tag = "Constructed" THEN Ok(column.width)
    ELSE IF ~is_general(column.v)
         THEN IF column.v.variable.formatting # None
              THEN Ok(column.v.variable.formatting[1][2])
              ELSE Err([text |-> "width from metadata variable required",
                        name |-> <<>>])
         ELSE IF column.v.variable.general_width # None
              THEN Ok(column.v.variable.general_width[1])
              ELSE Err([text |-> "cannot determine general width for variable",
                        name |-> OutputColumn_name(column)])

CT == <<"c", "t">>
WeightedCt == <<"w", "e", "i", "g", "h", "t", "e", "d", "_", "c", "t">>

\* The two columns every table starts with.
CountColumns ==
    <<Constructed(CT, 10, "Integer"), Constructed(WeightedCt, 10, "Integer")>>

(***************************************************************************)
(* tabulate, one step per call into the query generator or the engine.     *)
(* The connection, the statement and the rows are locals of tabulate: they *)
(* are dropped, the connection closed, on every way out of the function.   *)
(***************************************************************************)
AgeVariable ==
    [name |-> <<"A", "G", "E">>, id |-> 0, formatting |-> Some(<<1, 3>>),
     general_width |-> None, data_type |-> Some("Integer")]

GqVariable ==
    [name |-> <<"G", "Q">>, id |-> 1, formatting |-> Some(<<4, 1>>),
     general_width |-> Some(1), data_type |-> Some("Integer")]

\* What get_request_variables may return: a detailed and a general variable.
TabRequestVariables ==
    {RequestVariable_from_ipums_variable(AgeVariable),
     [RequestVariable_from_ipums_variable(GqVariable) EXCEPT !.is_detailed = FALSE]}

RequestSample_from_ipums_dataset(ds) == [sample |-> ds, name |-> ds.name]

\* What get_request_samples may return.
TabRequestSamples ==
    {RequestSample_from_ipums_dataset([name |-> d, id |-> 0]) : d \in DatasetNames}

\* The query generator: one query per sample of the request, in the order of
\* the request; each selects ct, weighted_ct and the grouping variables.
tab_queries(request_samples, request_variables) ==
    [i \in 1..Len(request_samples) |->
        [dataset |-> request_samples[i].name,
         select |-> <<CT, WeightedCt>>
                        \o [k \in 1..Len(request_variables) |-> request_variables[k].name]]]

EmptyTable == [heading |-> <<>>, rows |-> <<>>]

\* A mutant of new_output: the weighted count column is left out.
new_output_without_weighted_ct(requested_output_columns) ==
    [heading |-> <<Constructed(CT, 10, "Integer")>> \o requested_output_columns,
     rows |-> <<>>]

\* The Table a query's rows are put into: its heading is pushed and extended
\* before the first row is read.
new_output(requested_output_columns) ==
    [heading |-> CountColumns \o requested_output_columns, rows |-> <<>>]

\* A mutant of push_table: the newest table goes to the front.
push_table_front(tables, output) == <<output>> \o tables

\* tables.push(output)
push_table(tables, output) == Append(tables, output)

\* A mutant of tabulate_err: the tables built so far are returned.
tabulate_err_returns_tables(t, failed, msg) ==
    [t EXCEPT !.pc = "returned",
              !.conn = IF @ = "open" THEN "closed" ELSE @,
              !.failed = failed,
              !.result = Some(Ok(t.tables))]

\* A mutant of tabulate_err: the connection stays open.
tabulate_err_leaks_connection(t, failed, msg) ==
    [t EXCEPT !.pc = "returned",
              !.failed = failed,
              !.result = Some(Err(msg))]

\* return Err(..), by ? or by return: the locals are dropped, an open
\* connection is closed, and the caller gets the error alone.
tabulate_err(t, failed, msg) ==
    [t EXCEPT !.pc = "returned",
              !.conn = IF @ = "open" THEN "closed" ELSE @,
              !.failed = failed,
              !.result = Some(Err(msg))]

\* Ok(Tabulation(tables)) after the last query.
tabulate_ok(t) ==
    [t EXCEPT !.pc = "returned",
              !.conn = "closed",
              !.result = Some(Ok(t.tables))]

TabFrame ==
    UNCHANGED <<store, panicked, last, layouts, metadata, raw, bin, within_out,
                ctor_in, ctx, out>>

\* The call, up to and with tab_queries(..)?.
TabQueries ==
    /\ tab.pc = "idle"
    /\ LET requested_output_columns ==
               [i \in 1..Len(tab.request_variables) |-> RequestVar(tab.request_variables[i])]
           called == [tab EXCEPT !.requested_output_columns = requested_output_columns]
       IN  \E generated \in BOOLEAN :
              tab' = IF generated
                     THEN [called EXCEPT
                              !.pc = "open",
                              !.sql_queries = tab_queries(tab.request_samples,
                                                          tab.request_variables)]
                     ELSE tabulate_err(called, "tab_queries", [text |-> "query generation"])
    /\ TabFrame

\* Connection::open_in_memory()?
OpenInMemory ==
    /\ tab.pc = "open"
    /\ \E opened \in BOOLEAN :
          tab' = IF opened
                 THEN [tab EXCEPT !.pc = "loop", !.conn = "open", !.opened = @ + 1]
                 ELSE tabulate_err(tab, "open", [text |-> "open_in_memory"])
    /\ TabFrame

\* The head of the loop body: conn.prepare(&q)?, stmt.query([])?, and the
\* heading of the table.
PrepareAndQuery ==
    /\ tab.pc = "loop"
    /\ tab.sql_queries # <<>>
    /\ LET q == Head(tab.sql_queries)
       IN  \E outcome \in {"ok", "prepare", "query"} :
              tab' = IF outcome = "ok"
                     THEN [tab EXCEPT
                              !.pc = "rows",
                              !.sql_queries = Tail(@),
                              !.executed = Append(@, q.dataset),
                              !.column_names = q.select,
                              !.output = new_output(tab.requested_output_columns)]
                     ELSE tabulate_err(tab, outcome, [text |-> outcome, dataset |-> q.dataset])
    /\ TabFrame

\* What the files of a dataset hold decides the numbers its query returns.
DataOf(dataset) == IF dataset = "us2015a" THEN 8 ELSE 5

\* this_row of a row whose cells all read as integers: cell k holds first + k.
ThisRow(column_names, first) ==
    [k \in 1..Len(column_names) |-> IntToString(first + k)]

CellMessage(column_name) ==
    [text |-> "Can't extract value for", column_name |-> column_name]

\* One turn of while let Some(row) = rows.next()?: no more rows, a row that
\* cannot be read, a row with a cell that is no integer, or a row of integers.
NextRow ==
    /\ tab.pc = "rows"
    /\ \/ tab' = [tab EXCEPT !.pc = "loop",
                             !.tables = push_table(@, tab.output),
                             !.output = EmptyTable,
                             !.column_names = <<>>]
       \/ tab' = tabulate_err(tab, "row", [text |-> "rows.next"])
       \/ \E column_number \in 1..Len(tab.column_names) :
             tab' = tabulate_err(tab, "cell", CellMessage(tab.column_names[column_number]))
       \/ /\ Len(tab.output.rows) < MaxTabRows
          /\ tab' = [tab EXCEPT !.output.rows =
                         Append(tab.output.rows,
                                ThisRow(tab.column_names,
                                        10 * Len(tab.output.rows)
                                            + DataOf(tab.executed[Len(tab.executed)])))]
    /\ TabFrame

\* Ok(Tabulation(tables)) once the loop is over.
ReturnTabulation ==
    /\ tab.pc = "loop"
    /\ tab.sql_queries = <<>>
    /\ tab' = tabulate_ok(tab)
    /\ TabFrame

InitTab ==
    /\ store = MetadataEntitiesNew
    /\ panicked = FALSE
    /\ last = NoCall
    /\ layouts = [d \in DatasetNames |-> <<>>]
    /\ metadata = None
    /\ raw = [code |-> 0, value_label |-> "low", low |-> None, high |-> None]
    /\ bin = None
    /\ within_out = None
    /\ ctor_in = NoCtorIn
    /\ ctx = None
    /\ out = None
    /\ \E request_variables \in SeqsUpTo(TabRequestVariables, MaxTabVars),
          request_samples \in SeqsUpTo(TabRequestSamples, MaxTabSamples) :
          tab = [pc |-> "idle",
                 request_variables |-> request_variables,
                 request_samples |-> request_samples,
                 requested_output_columns |-> <<>>,
                 sql_queries |-> <<>>,
                 conn |-> "none",
                 opened |-> 0,
                 executed |-> <<>>,
                 column_names |-> <<>>,
                 output |-> EmptyTable,
                 tables |-> <<>>,
                 failed |-> "no",
                 result |-> None]

NextTab == TabQueries \/ OpenInMemory \/ PrepareAndQuery \/ NextRow \/ ReturnTabulation

SpecTab == InitTab /\ [][NextTab]_vars

(***************************************************************************)
(* Claims about tabulate                                                   *)
(***************************************************************************)
TabulateReturned == tab.pc = "returned"

TabulateSucceeded == TabulateReturned /\ tab.result[1].ok

\* C21: every Table tabulate returns has the heading ct, weighted_ct and
\* then the request's variables in the order of the request: the heading
\* has n + 2 columns, the first two are named "ct" and "weighted_ct", column
\* 2 + i is named as the i-th requested variable, and every row has
\* exactly n + 2 cells.
C21_HeadingAndRows ==
    TabulateSucceeded =>
        LET tables == tab.result[1].value
            n == Len(tab.request_variables)
        IN  \A i \in 1..Len(tables) :
               /\ Len(tables[i].heading) = n + 2
               /\ OutputColumn_name(tables[i].heading[1]) = CT
               /\ OutputColumn_name(tables[i].heading[2]) = WeightedCt
               /\ \A k \in 1..n :
                     OutputColumn_name(tables[i].heading[2 + k]) = tab.request_variables[k].name
               /\ \A r \in 1..Len(tables[i].rows) : Len(tables[i].rows[r]) = n + 2

C21_Witness ==
    /\ TabulateSucceeded
    /\ Len(tab.request_variables) = 2
    /\ tab.request_variables[1].name # tab.request_variables[2].name
    /\ Len(tab.result[1].value) >= 1
    /\ Len(tab.result[1].value[1].rows) = 2
    /\ Len(tab.result[1].value[1].heading) = 4

SampleNames == [i \in 1..Len(tab.request_samples) |-> tab.request_samples[i].name]

\* C22: a successful tabulate returns exactly one Table per requested
\* dataset; the queries of the datasets are executed in the order of the
\* request; and the i-th table holds the rows of the i-th sample of the
\* request.
C22_TablesInRequestOrder ==
    /\ tab.pc # "idle" =>
          /\ Len(tab.executed) <= Len(tab.request_samples)
          /\ tab.executed = SubSeq(SampleNames, 1, Len(tab.executed))
    /\ TabulateSucceeded =>
          LET tables == tab.result[1].value
          IN  /\ Len(tables) = Len(tab.request_samples)
              /\ tab.executed = SampleNames
              /\ \A i \in 1..Len(tables) :
                    \A r \in 1..Len(tables[i].rows) :
                       tables[i].rows[r]
                           = ThisRow(<<CT, WeightedCt>>
                                        \o [k \in 1..Len(tab.request_variables) |->
                                               tab.request_variables[k].name],
                                     10 * (r - 1) + DataOf(SampleNames[i]))

C22_Witness ==
    /\ TabulateSucceeded
    /\ Len(tab.request_samples) = 2
    /\ SampleNames = <<"us2015b", "us2015a">>
    /\ Len(tab.result[1].value) = 2
    /\ Len(tab.result[1].value[1].rows) >= 1
    /\ Len(tab.result[1].value[2].rows) >= 1

\* C23: partial tables are never returned.  When query generation, the
\* preparation of a statement, the reading of a row or the reading of a cell
\* as an integer fails for any dataset, also after earlier datasets were
\* tabulated, tabulate stops at that first error and returns the error
\* alone, with no Table; a cell that cannot be read as an integer gives an
\* error that names the column.
C23_NoPartialTables ==
    TabulateReturned =>
        /\ tab.failed # "no" =>
              /\ ~tab.result[1].ok
              /\ DOMAIN tab.result[1] = {"ok", "msg"}
        /\ tab.failed = "cell" =>
              /\ tab.result[1].msg.text = "Can't extract value for"
              /\ \E k \in 1..Len(tab.column_names) :
                    tab.result[1].msg.column_name = tab.column_names[k]
        /\ tab.failed \in {"prepare", "query", "row", "cell"} =>
              Len(tab.executed) + Len(tab.sql_queries) = Len(tab.request_samples)
        /\ tab.result[1].ok =>
              /\ tab.failed = "no"
              /\ tab.sql_queries = <<>>
              /\ Len(tab.result[1].value) = Len(tab.executed)

C23_Witness ==
    /\ TabulateReturned
    /\ tab.failed = "cell"
    /\ Len(tab.tables) = 1
    /\ Len(tab.tables[1].rows) >= 1
    /\ ~tab.result[1].ok
    /\ tab.result[1].msg.column_name = WeightedCt

\* C27: the engine connection belongs to one call of tabulate: it is opened
\* at most once in a call, it is not open before the call nor once the call
\* has returned, and it is closed on every way out (success, a statement
\* that cannot be prepared, a row that cannot be read, a cell that cannot be
\* converted); a call that fails in query generation never opens one.
C27_ConnectionScoped ==
    /\ tab.pc = "idle" => DOMAIN tab = {"pc"} \/ (tab.conn = "none" /\ tab.opened = 0)
    /\ tab.pc # "idle" =>
          /\ tab.opened <= 1
          /\ tab.conn = "open" <=> tab.pc \in {"loop", "rows"}
          /\ tab.pc = "open" => tab.conn = "none"
          /\ TabulateReturned =>
                /\ tab.conn # "open"
                /\ tab.failed \in {"no", "prepare", "query", "row", "cell"} =>
                      (tab.conn = "closed" /\ tab.opened = 1)
                /\ tab.failed \in {"tab_queries", "open"} =>
                      (tab.conn = "none" /\ tab.opened = 0)

C27_Witness ==
    /\ TabulateReturned
    /\ tab.failed = "row"
    /\ tab.conn = "closed"
    /\ tab.opened = 1
    /\ Len(tab.tables) = 1

(***************************************************************************)
(* Table and Tabulation: the text table and the JSON output                *)
(***************************************************************************)
MaxHeadingLen == 2    \* a table to format has at most this many columns

\* The loop of column_widths from column i on; var.width()? leaves at the
\* first column without a width.
RECURSIVE column_widths_from(_, _, _)
column_widths_from(heading, i, widths) ==
    IF i > Len(heading) THEN Ok(widths)
    ELSE LET var == heading[i]
             name_width == Len(OutputColumn_name(var))
             width == OutputColumn_width(var)
         IN  IF ~width.ok THEN width
             ELSE column_widths_from(heading, i + 1,
                      Append(widths, IF name_width < width.value THEN width.value
                                     ELSE name_width))

\* A mutant of column_widths: the declared width is taken as it is.
column_widths_declared(table) ==
    IF \E i \in 1..Len(table.heading) : ~OutputColumn_width(table.heading[i]).ok
    THEN column_widths_from(table.heading, 1, <<>>)
    ELSE Ok([i \in 1..Len(table.heading) |-> OutputColumn_width(table.heading[i]).value])

column_widths(table) == column_widths_from(table.heading, 1, <<>>)

RECURSIVE SumSeq(_)
SumSeq(numbers) == IF numbers = <<>> THEN 0 ELSE Head(numbers) + SumSeq(Tail(numbers))

text_table_width(table) ==
    LET widths == column_widths(table)
    IN  IF ~widths.ok THEN widths
        ELSE Ok(1 + 3 * Len(table.heading) + SumSeq(widths.value))

Repeat(c, n) == [i \in 1..n |-> c]

\* format!("{:>w$}", s): s with blanks before it up to w characters.
PadLeft(s, w) == Repeat(" ", IF Len(s) < w THEN w - Len(s) ELSE 0) \o s

RECURSIVE Concat(_)
Concat(pieces) == IF pieces = <<>> THEN <<>> ELSE Head(pieces) \o Concat(Tail(pieces))

\* One line of the text table: "| " cell " " for every column, then "|\n".
TextLine(cells, widths) ==
    Concat([column \in 1..Len(cells) |->
               <<"|", " ">> \o PadLeft(cells[column], widths[column]) \o <<" ">>])
        \o <<"|", "\n">>

\* The outcome is a Result, or a panic: text_table_width()? - 2 is taken in
\* usize and underflows when the table has no columns; a row longer than the
\* heading indexes widths out of bounds.
format_as_text(table) ==
    LET widths == column_widths(table)
        table_width == text_table_width(table)
    IN  IF ~widths.ok THEN [panicked |-> FALSE, result |-> widths]
        ELSE IF table_width.value < 2
             THEN [panicked |-> TRUE, result |-> Err([text |-> "attempt to subtract with overflow"])]
        ELSE IF \E r \in 1..Len(table.rows) : Len(table.rows[r]) > Len(widths.value)
             THEN [panicked |-> TRUE, result |-> Err([text |-> "index out of bounds"])]
        ELSE [panicked |-> FALSE,
              result |-> Ok(TextLine([column \in 1..Len(table.heading) |->
                                          OutputColumn_name(table.heading[column])],
                                     widths.value)
                            \o <<"|">> \o Repeat("-", table_width.value - 2) \o <<"|", "\n">>
                            \o Concat([r \in 1..Len(table.rows) |->
                                          TextLine(table.rows[r], widths.value)]))]

\* The display string of an IpumsDataType.
DataTypeDisplay(data_type) ==
    CASE data_type = "Integer" -> <<"I", "n", "t", "e", "g", "e", "r">>
      [] data_type = "Float" -> <<"F", "l", "o", "a", "t">>
      [] data_type = "String" -> <<"S", "t", "r", "i", "n", "g">>

\* RequestVariable::requested_width: the width the variable is displayed
\* with, the general one for a general variable.
requested_width(v) == OutputColumn_width(RequestVar(v))

\* What the serializer is given for one heading entry.  A JSON object is a
\* record; serialize_struct_variant writes the variant's name as the one key
\* of an outer object, and the three fields in the object under it.
OutputColumn_serialize(column) ==
    IF column.tag = "Constructed"
    THEN Ok([Constructed |-> [name |-> column.name,
                              width |-> column.width,
                              data_type |-> DataTypeDisplay(column.data_type)]])
    ELSE LET v == column.v
             width == requested_width(v)
         IN  IF ~width.ok THEN width
             ELSE IF v.variable.data_type = None
                  THEN Err([text |-> "missing data type for variable", name |-> v.name])
             ELSE Ok([RequestVar |-> [name |-> v.name,
                                      width |-> width.value,
                                      data_type |-> DataTypeDisplay(v.variable.data_type[1])]])

\* The first heading entry of tables that cannot be serialized.
FirstSerializeError(tables) ==
    LET entries == UNION {{<<i, k>> : k \in 1..Len(tables[i].heading)} : i \in 1..Len(tables)}
        failing == {p \in entries : ~OutputColumn_serialize(tables[p[1]].heading[p[2]]).ok}
    IN  CHOOSE p \in failing :
            \A other \in failing :
                p[1] < other[1] \/ (p[1] = other[1] /\ p[2] <= other[2])

\* serde_json::to_string_pretty(&self.0): the array of the tables, each the
\* object of its heading and its rows, or the first error of an entry.
to_string_pretty(tables) ==
    IF \E i \in 1..Len(tables) : \E k \in 1..Len(tables[i].heading) :
           ~OutputColumn_serialize(tables[i].heading[k]).ok
    THEN LET p == FirstSerializeError(tables)
         IN  OutputColumn_serialize(tables[p[1]].heading[p[2]])
    ELSE Ok([i \in 1..Len(tables) |->
                [heading |-> [k \in 1..Len(tables[i].heading) |->
                                 OutputColumn_serialize(tables[i].heading[k]).value],
                 rows |-> tables[i].rows]])

\* The TextTable arm from table i on.
RECURSIVE output_text_from(_, _, _)
output_text_from(tables, i, output) ==
    IF i > Len(tables) THEN [panicked |-> FALSE, result |-> Ok(output)]
    ELSE LET table_text == format_as_text(tables[i])
         IN  IF table_text.panicked \/ ~table_text.result.ok THEN table_text
             ELSE output_text_from(tables, i + 1,
                                   output \o table_text.result.value \o <<"\n">>)

TableFormats == {"Csv", "Html", "Json", "TextTable"}

\* todo!(..) is a panic.
Tabulation_output(tables, format) ==
    IF format \in {"Html", "Csv"}
    THEN [panicked |-> TRUE,
          result |-> Err([text |-> "not yet implemented: Output format not implemented yet.",
                          format |-> format])]
    ELSE IF format = "Json"
         THEN LET serialized == to_string_pretty(tables)
              IN  [panicked |-> FALSE,
                   result |-> IF serialized.ok THEN serialized
                              ELSE Err([text |-> "Cannot serialize result into json",
                                        err |-> serialized.msg])]
         ELSE output_text_from(tables, 1, <<>>)

\* Variables whose metadata lack the formatting, or the data type.
IncwageVariable ==
    [name |-> <<"I", "N", "C", "W", "A", "G", "E">>, id |-> 2, formatting |-> None,
     general_width |-> None, data_type |-> None]

RelateVariable ==
    [name |-> <<"R", "E", "L", "A", "T", "E">>, id |-> 3, formatting |-> Some(<<5, 8>>),
     general_width |-> Some(2), data_type |-> None]

General(var) == [RequestVariable_from_ipums_variable(var) EXCEPT !.is_detailed = FALSE]

\* The columns a table to format may have.
FormatColumns ==
    {CountColumns[1], CountColumns[2],
     RequestVar(RequestVariable_from_ipums_variable(AgeVariable)),
     RequestVar(RequestVariable_from_ipums_variable(GqVariable)),
     RequestVar(General(GqVariable)),
     RequestVar(RequestVariable_from_ipums_variable(IncwageVariable)),
     RequestVar(General(IncwageVariable)),
     RequestVar(RequestVariable_from_ipums_variable(RelateVariable))}

\* No row, or one row with a cell for every column.
RowsFor(heading) ==
    {<<>>, <<[k \in 1..Len(heading) |-> IntToString(12 * k)]>>}

FormatFrame ==
    UNCHANGED <<store, last, layouts, metadata, raw, bin, within_out, ctor_in, ctx, tab>>

Output ==
    /\ ~panicked
    /\ \E format \in TableFormats :
          LET r == Tabulation_output(tab.tabulation, format)
          IN  /\ panicked' = r.panicked
              /\ out' = Some([op |-> "output", format |-> format,
                              panicked |-> r.panicked, result |-> r.result])
    /\ FormatFrame

FormatAsText ==
    /\ ~panicked
    /\ tab.tabulation # <<>>
    /\ LET r == format_as_text(tab.tabulation[1])
       IN  /\ panicked' = r.panicked
           /\ out' = Some([op |-> "format_as_text", format |-> "TextTable",
                           panicked |-> r.panicked, result |-> r.result])
    /\ FormatFrame

TextTableWidth ==
    /\ ~panicked
    /\ tab.tabulation # <<>>
    /\ panicked' = FALSE
    /\ out' = Some([op |-> "text_table_width", format |-> "TextTable",
                    panicked |-> FALSE, result |-> text_table_width(tab.tabulation[1])])
    /\ FormatFrame

ColumnWidths ==
    /\ ~panicked
    /\ tab.tabulation # <<>>
    /\ panicked' = FALSE
    /\ out' = Some([op |-> "column_widths", format |-> "TextTable",
                    panicked |-> FALSE, result |-> column_widths(tab.tabulation[1])])
    /\ FormatFrame

InitFormat ==
    /\ store = MetadataEntitiesNew
    /\ panicked = FALSE
    /\ last = NoCall
    /\ layouts = [d \in DatasetNames |-> <<>>]
    /\ metadata = None
    /\ raw = [code |-> 0, value_label |-> "low", low |-> None, high |-> None]
    /\ bin = None
    /\ within_out = None
    /\ ctor_in = NoCtorIn
    /\ ctx = None
    /\ out = None
    /\ \/ tab = [pc |-> "idle", tabulation |-> <<>>]
       \/ \E heading \in SeqsUpTo(FormatColumns, MaxHeadingLen) :
             \E rows \in RowsFor(heading) :
                tab = [pc |-> "idle", tabulation |-> <<[heading |-> heading, rows |-> rows]>>]

NextFormat == Output \/ FormatAsText \/ TextTableWidth \/ ColumnWidths

SpecFormat == InitFormat /\ [][NextFormat]_vars

(***************************************************************************)
(* Claims on the output formats                                            *)
(***************************************************************************)
OutputActed(format) ==
    /\ out # None
    /\ out[1].op = "output"
    /\ out[1].format = format

\* C24: Tabulation::output with the format Csv or Html returns an error
\* value of the result type that says the format is not implemented; it
\* neither returns an output string nor ends the program.
C24_UnimplementedIsError ==
    \A format \in {"Csv", "Html"} :
        OutputActed(format) =>
            /\ ~out[1].panicked
            /\ ~out[1].result.ok

HeadingKeys == {"name", "width", "data_type"}

NoDataType(column) ==
    /\ column.tag = "RequestVar"
    /\ column.v.variable.data_type = None

\* C25: in the JSON output every heading entry, of either variant, is an
\* object with exactly the keys name, width and data_type, the last being
\* the display string of the type; a RequestVar column whose variable has no
\* data type makes the serialization fail with an error.
C25_UniformHeadingShape ==
    OutputActed("Json") =>
        /\ ~out[1].panicked
        /\ (\E t \in 1..Len(tab.tabulation) :
               \E k \in 1..Len(tab.tabulation[t].heading) :
                   NoDataType(tab.tabulation[t].heading[k]))
              => ~out[1].result.ok
        /\ out[1].result.ok =>
              \A t \in 1..Len(out[1].result.value) :
                  \A k \in 1..Len(out[1].result.value[t].heading) :
                      DOMAIN out[1].result.value[t].heading[k] = HeadingKeys

\* The width the metadata declare for a column: the layout's formatting
\* width of a detailed variable, the general width of a general one.
DeclaredWidth(column) ==
    IF column.tag = "Constructed" THEN Some(column.width)
    ELSE IF column.v.is_detailed
         THEN (IF column.v.variable.formatting = None THEN None
               ELSE Some(column.v.variable.formatting[1][2]))
         ELSE column.v.variable.general_width

Max(a, b) == IF a >= b THEN a ELSE b

ExpectedWidths(heading) ==
    [k \in 1..Len(heading) |->
        Max(Len(OutputColumn_name(heading[k])), DeclaredWidth(heading[k])[1])]

WidthMissing(heading) == \E k \in 1..Len(heading) : DeclaredWidth(heading[k]) = None

CellsFit(table) ==
    \A r \in 1..Len(table.rows) :
        \A k \in 1..Len(table.rows[r]) :
            Len(table.rows[r][k]) <= ExpectedWidths(table.heading)[k]

TextActed(op) ==
    /\ out # None
    /\ out[1].op = op
    /\ tab.tabulation # <<>>

\* C26: in the text table every column is as wide as the longer of its
\* heading name and its declared width; when a declared width is missing
\* column_widths, text_table_width and format_as_text return an error; the
\* width of the table is 1 + 3 * (number of columns) + the sum of the column
\* widths, and every line of the formatted table has that width.
C26_TextTableWidths ==
    \A op \in {"column_widths", "text_table_width", "format_as_text"} :
        TextActed(op) =>
            LET table == tab.tabulation[1]
                heading == table.heading
            IN  IF WidthMissing(heading)
                THEN ~out[1].panicked /\ ~out[1].result.ok
                ELSE /\ op = "column_widths" =>
                           /\ out[1].result.ok
                           /\ out[1].result.value = ExpectedWidths(heading)
                     /\ op = "text_table_width" =>
                           /\ out[1].result.ok
                           /\ out[1].result.value =
                                 1 + 3 * Len(heading) + SumSeq(ExpectedWidths(heading))
                     /\ (op = "format_as_text" /\ heading # <<>>) =>
                           /\ ~out[1].panicked
                           /\ out[1].result.ok
                           /\ CellsFit(table) => Len(out[1].result.value) =
                                 (2 + Len(table.rows))
                                 * (2 + 3 * Len(heading) + SumSeq(ExpectedWidths(heading)))

C26_Witness ==
    /\ TextActed("format_as_text")
    /\ Len(tab.tabulation[1].heading) = 2
    /\ tab.tabulation[1].heading[1] = CountColumns[2]
    /\ tab.tabulation[1].heading[2].tag = "RequestVar"
    /\ ~tab.tabulation[1].heading[2].v.is_detailed
    /\ Len(tab.tabulation[1].rows) = 1
    /\ CellsFit(tab.tabulation[1])
    /\ out[1].result.ok

(***************************************************************************)
(* Ingestion: a store built from MetadataEntities::new() by                *)
(* add_dataset_variable alone.                                             *)
(***************************************************************************)
MaxIngestLen == 3     \* ingestion issues at most this many dataset and variable ids

IngestDatasetNames == DatasetNames \cup {"us2016a"}
IngestVariableNames == VariableNames \cup {"INCWAGE"}

IngestDatasetVariable ==
    /\ ~panicked
    /\ \E dn \in IngestDatasetNames, vn \in IngestVariableNames, carried \in CarriedIds :
          LET r == add_dataset_variable(store, [name |-> dn, id |-> carried],
                                        [name |-> vn, id |-> carried])
          IN  /\ Len(r.md.datasets_index) <= MaxIngestLen
              /\ Len(r.md.variables_index) <= MaxIngestLen
              /\ store' = r.md
              /\ panicked' = r.panicked
              /\ last' = [NoCall EXCEPT !.op = "add_dataset_variable",
                                        !.dataset = dn, !.variable = vn,
                                        !.dataset_id = r.dataset_id,
                                        !.variable_id = r.variable_id]
    /\ OtherUnchanged

NextIngest == IngestDatasetVariable

SpecIngest == Init /\ [][NextIngest]_vars

\* C28: from MetadataEntities::new() and with add_dataset_variable only, no
\* call indexes an adjacency vector out of bounds (none panics), and after
\* every call available_variables is as long as datasets_index and
\* available_datasets as long as variables_index, so for_dataset(d) and
\* for_variable(v) are present and not empty for every id issued.
C28_IngestKeepsAdjacencyAligned ==
    /\ ~panicked
    /\ Len(store.available_variables) = Len(store.datasets_index)
    /\ Len(store.available_datasets) = Len(store.variables_index)
    /\ \A d \in 0..(Len(store.datasets_index) - 1) :
          /\ for_dataset(store, d) # None
          /\ for_dataset(store, d)[1] # {}
    /\ \A v \in 0..(Len(store.variables_index) - 1) :
          /\ for_variable(store, v) # None
          /\ for_variable(store, v)[1] # {}

\* The second dataset and the second variable have been issued, and the last
\* call connected a name that was already registered on one side.
C28_Witness ==
    /\ last.op = "add_dataset_variable"
    /\ Len(store.datasets_index) = 2
    /\ Len(store.variables_index) = 2
    /\ last.dataset_id = 1
    /\ last.variable_id = 0
    /\ store.available_variables[2] = {0, 1}
    /\ store.available_datasets[1] = {0, 1}

(***************************************************************************)
(* Claims about what a load leaves in the store of a Context               *)
(***************************************************************************)
cloned_dataset_from_id(md, ds_id) == md.datasets_index[ds_id + 1]

cloned_dataset_from_name(md, name) ==
    IF name \in DOMAIN md.datasets_by_name
    THEN Some(cloned_dataset_from_id(md, md.datasets_by_name[name]))
    ELSE None

cloned_variable_from_id(md, var_id) == md.variables_index[var_id + 1]

cloned_variable_from_name(md, name) ==
    IF name \in DOMAIN md.variables_by_name
    THEN Some(cloned_variable_from_id(md, md.variables_by_name[name]))
    ELSE None

LoadReturned ==
    /\ last.op = "load_metadata_for_datasets"
    /\ ~panicked
    /\ metadata # None

ElementsOf(names) == {names[i] : i \in 1..Len(names)}

\* C29: after load_metadata_for_datasets(names) every name of names resolves
\* to a dataset of the store, a dataset whose layout lists no variables
\* included.
C29_LoadedNamesResolvable ==
    LoadReturned =>
        \A name \in ElementsOf(last.names) :
            cloned_dataset_from_name(metadata[1], name) # None

FirstIndex(names, x) ==
    CHOOSE i \in 1..Len(names) : names[i] = x /\ \A j \in 1..(i - 1) : names[j] # x

\* The variable names of the layouts of the datasets of names.
VariablesOfLayouts(names) == UNION {ElementsOf(layouts[ds]) : ds \in ElementsOf(names)}

\* The layout line of the first dataset of names whose layout names x.
FirstLayoutVariable(names, x) ==
    LET naming == [i \in 1..Len(names) |->
                       IF x \in ElementsOf(layouts[names[i]]) THEN "yes" ELSE "no"]
        ds == names[FirstIndex(naming, "yes")]
    IN  IpumsVariable_from(x, FirstIndex(layouts[ds], x) - 1)

\* The datasets of the store are exactly those of the list loaded last.
OnlyLoadedDatasets ==
    LoadReturned =>
        /\ DOMAIN metadata[1].datasets_by_name = ElementsOf(last.names)
        /\ ElementsOf(NamesOf(metadata[1].datasets_index)) = ElementsOf(last.names)

\* A dataset that the list loaded last does not name is not resolvable.
OthersNotResolvable ==
    LoadReturned =>
        \A name \in DatasetNames \ ElementsOf(last.names) :
            cloned_dataset_from_name(metadata[1], name) = None

\* The variables of the store are exactly those of the layouts loaded last.
OnlyLoadedVariables ==
    LoadReturned =>
        /\ DOMAIN metadata[1].variables_by_name = VariablesOfLayouts(last.names)
        /\ ElementsOf(NamesOf(metadata[1].variables_index)) = VariablesOfLayouts(last.names)

\* The ids are 0, 1, .. in both indexes, and a name resolves to its entity.
IdsFromZero ==
    LoadReturned =>
        /\ IdsDense(metadata[1])
        /\ \A name \in DOMAIN metadata[1].datasets_by_name :
              cloned_dataset_from_name(metadata[1], name)[1].name = name
        /\ \A name \in DOMAIN metadata[1].variables_by_name :
              cloned_variable_from_name(metadata[1], name)[1].name = name
        /\ Len(metadata[1].datasets_index) = Cardinality(DOMAIN metadata[1].datasets_by_name)
        /\ Len(metadata[1].variables_index) = Cardinality(DOMAIN metadata[1].variables_by_name)

\* A variable is stored as the first layout that names it has it.
FirstLayoutWins ==
    LoadReturned =>
        \A name \in DOMAIN metadata[1].variables_by_name :
            cloned_variable_from_name(metadata[1], name)[1].formatting
                = FirstLayoutVariable(last.names, name).formatting

\* C30: a load replaces the metadata: after a load of A and then a load of B
\* the store holds exactly the datasets and the variables of B's layouts,
\* with ids from zero; a dataset that only A names is not resolvable; a
\* variable that several of the layouts name is stored as the first of them
\* has it.
C30_LoadReplaces ==
    /\ OnlyLoadedDatasets
    /\ OthersNotResolvable
    /\ OnlyLoadedVariables
    /\ IdsFromZero
    /\ FirstLayoutWins

====
